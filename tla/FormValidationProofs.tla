------------------------ MODULE FormValidationProofs ------------------------
(***************************************************************************)
(* For every set of texts that a user may type, and any number of posts:   *)
(* the messages follow the text, and values out of bounds get through in   *)
(* the known ways only.                                                    *)
(***************************************************************************)
EXTENDS FormValidation, TLAPS

Types ==
    /\ page \in Pages
    /\ text \in [Inputs -> Text]
    /\ attached = {} \/ attached = FormsOf(page)
    /\ submitted \in [Forms -> SUBSET Names]
    /\ invalid \in [Forms -> SUBSET Names]
    /\ shown \in [Forms -> SUBSET Names]

\* A form has its rules exactly when it has its validator, and nothing is checked before.
RulesInv ==
    \A f \in Forms :
        /\ \A n \in NamesOf(f) :
             rules[f][n] = IF f \in attached THEN ParseElement(n) ELSE {}
        /\ f \notin attached => submitted[f] = {}

\* How the values of a post got past the script and the server.
Accounted(post) ==
    /\ post.checked /\ ~post.misread => post.fits /\ post.answer # "rejected"
    /\ post.command # "none" /\ ~post.fits =>
          /\ ~post.checked \/ post.misread
          /\ post.form = "create" => post.rounded

Sound(post) == post \in Post /\ Accounted(post)

PostInv == \A k \in DOMAIN posts : Sound(posts[k])

IInv == Types /\ RulesInv /\ MessagesFollowText /\ PostInv

-----------------------------------------------------------------------------
(* The pages and their attributes.                                         *)

\* The forms and inputs of a page are among all of them.
LEMMA PagesAndInputs ==
    /\ \A p \in Pages : FormsOf(p) \subseteq Forms
    /\ \A f \in Forms : NamesOf(f) \subseteq Names
    /\ \A f \in Forms : \A n \in NamesOf(f) : << f, n >> \in Inputs
    /\ \A i \in Inputs : i[1] \in Forms /\ i[2] \in NamesOf(i[1]) /\ i = << i[1], i[2] >>
BY DEF Pages, FormsOf, NamesOf, Forms, Names, Inputs

\* A text in a new document is one.
LEMMA NewTextType == NewText \in [Inputs -> Text]
BY DEF NewText, Text, Digit, Empty, Quarters

\* The value of a property is a number.
LEMMA BoundType ==
    ASSUME NEW n \in Names, NEW t \in Text
    PROVE  Bound(n, t) \in Int
<1>1. CASE ~Binds(n, t)
  BY <1>1 DEF Bound
<1>2. CASE Binds(n, t) /\ n \in IntegerNames
  <2>1. t.int \in Int
    BY <1>2 DEF Binds, IntegerNames, Text
  <2>2. Bound(n, t) = Quarters(t.int)
    BY <1>2 DEF Bound, IntegerNames
  <2>3. QED
    BY <2>1, <2>2 DEF Quarters
<1>3. CASE Binds(n, t) /\ n = "Price"
  BY <1>3 DEF Bound, Binds, Text, IntegerNames
<1>4. CASE Binds(n, t) /\ n \notin IntegerNames /\ n # "Price"
  BY <1>4 DEF Bound, Text
<1>5. QED
  BY <1>1, <1>2, <1>3, <1>4

\* What is between two whole numbers is still there when it was rounded.
LEMMA Rounding ==
    \A v, lo, hi \in Int : Quarters(lo) <= v /\ v <= Quarters(hi) =>
        Quarters(lo) <= Quarters(ToInt32(v)) /\ Quarters(ToInt32(v)) <= Quarters(hi)
BY DEF Quarters, ToInt32

\* The rule of a range compares what the script makes of the text with its bounds.
LEMMA RangeRule ==
    ASSUME NEW n, NEW t, NEW lo, NEW hi, RangeAttribute(lo, hi) \in AttributesOf(n),
           \A r \in ParseElement(n) : Passes(r, t), t.length # 0
    PROVE  t.script # NaN /\ Within(t.script, [min |-> Quarters(lo), max |-> Quarters(hi)])
<1> DEFINE params == [min |-> Quarters(lo), max |-> Quarters(hi)]
<1>1. Adapt(RangeAttribute(lo, hi)) = Rule("range", params)
  <2>1. {"min", "max"} \subseteq DOMAIN params
    OBVIOUS
  <2>2. AddMinMax(params, "min", "max", "range") = Rule("range", params)
    BY <2>1 DEF AddMinMax
  <2>3. QED
    BY <2>2 DEF Adapt, RangeAttribute, Attribute
<1>2. Passes([name |-> "range", value |-> params], t)
  BY <1>1 DEF ParseElement, Rule
<1>3. QED
  BY <1>2 DEF Passes

\* A text that passes the rules of an input, and is the same to the server, is read by it,
\* is in the bounds of its property and meets the attributes: every rule of the script is
\* the one of its attribute, and rounding takes nothing out of its bounds.
LEMMA RulesAreTheAttributes ==
    ASSUME NEW n \in Names, NEW t \in Text,
           \A r \in ParseElement(n) : Passes(r, t), ReadAlike(n, t)
    PROVE  /\ Binds(n, t)
           /\ Meets(n, Bound(n, t))
           /\ InBounds(n, Bound(n, t))
<1>1. \A a \in AttributesOf(n) : \A r \in Adapt(a) : Passes(r, t)
  BY DEF ParseElement
<1>2. Attribute("required", NoParams) \in AttributesOf(n)
  BY DEF Names, AttributesOf
<1>3. t.length # 0
  <2>1. Adapt(Attribute("required", NoParams)) = Rule("required", NoParams)
    BY DEF Adapt, Attribute
  <2>2. Passes([name |-> "required", value |-> NoParams], t)
    BY <1>1, <1>2, <2>1 DEF Rule
  <2>3. QED
    BY <2>2 DEF Passes
<1>4. \A v : Within(v, NoParams)
  BY DEF Within, NoParams
<1>5. Binds(n, t)
  BY DEF Binds, ReadAlike
<1>6. CASE n \in {"Quantity", "InitialQuantity"}
  <2> DEFINE lo == IF n = "Quantity" THEN 1 ELSE 0
             hi == IF n = "Quantity" THEN 10000 ELSE 100000
  <2>1. AttributesOf(n) = {Attribute("required", NoParams), RangeAttribute(lo, hi)}
    BY <1>6 DEF AttributesOf
  <2> HIDE DEF lo, hi
  <2>2. Within(t.script, [min |-> Quarters(lo), max |-> Quarters(hi)])
    BY <1>3, <2>1, RangeRule
  <2>3. Bound(n, t) = t.script
    BY <1>5, <1>6 DEF Bound, ReadAlike, IntegerNames
  <2>4. InBounds(n, Bound(n, t))
    BY <1>4, <2>1, <2>2, <2>3 DEF InBounds, Attribute, RangeAttribute
  <2>5. n # "Price"
    BY <1>6
  <2>6. QED
    BY <1>5, <2>4, <2>5 DEF Meets
<1>7. CASE n = "Price"
  <2>1. AttributesOf(n) = {Attribute("required", NoParams), Attribute("number", NoParams),
                           RangeAttribute(1, 100000)}
    BY <1>7 DEF AttributesOf
  <2>2. Within(t.script, [min |-> Quarters(1), max |-> Quarters(100000)])
    BY <1>3, <2>1, RangeRule
  <2>3. Bound(n, t) = t.script
    BY <1>5, <1>7 DEF Bound, ReadAlike, IntegerNames
  <2>4. InBounds(n, Bound(n, t))
    BY <1>4, <2>1, <2>2, <2>3 DEF InBounds, Attribute, RangeAttribute
  <2>5. Bound(n, t) \in Int
    BY BoundType
  <2>6. Within(Quarters(ToInt32(Bound(n, t))),
               [min |-> Quarters(1), max |-> Quarters(100000)])
    BY <2>2, <2>3, <2>5, Rounding DEF Within
  <2>7. Meets(n, Bound(n, t))
    BY <1>4, <1>7, <2>1, <2>6 DEF Meets, InBounds, Attribute, RangeAttribute
  <2>8. QED
    BY <1>5, <2>4, <2>7
<1>8. CASE n = "ProductName"
  <2>1. AttributesOf(n) = {Attribute("required", NoParams),
                           Attribute("minlength", [min |-> 6]),
                           Attribute("maxlength", [max |-> 50])}
    BY <1>8 DEF AttributesOf
  <2>2. Adapt(Attribute("minlength", [min |-> 6])) = Rule("minlength", [min |-> 6])
    <3>1. AddMinMax([min |-> 6], "minlength", "none", "none") = Rule("minlength", [min |-> 6])
      BY DEF AddMinMax
    <3>2. QED
      BY <3>1 DEF Adapt, Attribute
  <2>3. Adapt(Attribute("maxlength", [max |-> 50])) = Rule("maxlength", [max |-> 50])
    <3>1. AddMinMax([max |-> 50], "minlength", "maxlength", "none")
            = Rule("maxlength", [max |-> 50])
      BY DEF AddMinMax
    <3>2. QED
      BY <3>1 DEF Adapt, Attribute
  <2>4. /\ Passes([name |-> "minlength", value |-> [min |-> 6]], t)
        /\ Passes([name |-> "maxlength", value |-> [max |-> 50]], t)
    BY <1>1, <2>1, <2>2, <2>3 DEF Rule
  <2>5. Within(t.length, [min |-> 6]) /\ Within(t.length, [max |-> 50])
    BY <1>3, <2>4 DEF Passes
  <2>6. Bound(n, t) = t.length
    BY <1>5, <1>8 DEF Bound, IntegerNames
  <2>7. InBounds(n, Bound(n, t))
    BY <1>4, <2>1, <2>5, <2>6 DEF InBounds, Attribute
  <2>8. QED
    BY <1>5, <1>8, <2>7 DEF Meets
<1>9. QED
  BY <1>6, <1>7, <1>8 DEF Names

-----------------------------------------------------------------------------
(* The documents.                                                          *)

\* The invariant holds of a new document.
LEMMA InitInvariant == Init => IInv
<1> SUFFICES ASSUME Init PROVE IInv
  OBVIOUS
<1>1. Types
  BY NewTextType DEF Init, Types, Nothing, Pages
<1>2. RulesInv
  BY DEF Init, RulesInv, Nothing
<1>3. MessagesFollowText
  BY PagesAndInputs DEF Init, MessagesFollowText, Nothing
<1>4. PostInv
  BY DEF Init, PostInv
<1>5. QED
  BY <1>1, <1>2, <1>3, <1>4 DEF IInv

\* A new document has neither validators nor rules, and nothing of it was checked; the
\* complaints that the server put into it are not counted as checks.
LEMMA NewDocuments ==
    ASSUME NEW p \in Pages, NEW texts \in [Inputs -> Text],
           NEW complaints \in [Forms -> SUBSET Names], NewDocument(p, texts, complaints)
    PROVE  Types' /\ RulesInv' /\ MessagesFollowText'
<1>1. Types'
  BY DEF NewDocument, Types, Nothing
<1>2. RulesInv'
  BY DEF NewDocument, RulesInv, Nothing
<1>3. MessagesFollowText'
  BY PagesAndInputs DEF NewDocument, MessagesFollowText, Nothing
<1>4. QED
  BY <1>1, <1>2, <1>3

\* A check leaves the input's container as its text deserves.
LEMMA Checks ==
    ASSUME Types, RulesInv, MessagesFollowText,
           NEW f \in Forms, NEW n \in NamesOf(f), NEW t \in Text, f \in attached,
           text' = [text EXCEPT ![<< f, n >>] = t], CheckElement(f, n, t),
           UNCHANGED << page, attached, rules >>
    PROVE  Types' /\ RulesInv' /\ MessagesFollowText'
<1>0. n \in Names /\ << f, n >> \in Inputs
  BY PagesAndInputs
<1>1. Types'
  BY <1>0 DEF Types, CheckElement, ShowLabel, onError, onSuccess
<1>2. RulesInv'
  BY DEF RulesInv, CheckElement, Types
<1>3. MessagesFollowText'
  <2> SUFFICES ASSUME NEW i \in Inputs, i[2] \in submitted'[i[1]]
               PROVE  i[2] \in shown'[i[1]] <=> ~Valid(i[1], i[2], text[i])'
    BY DEF MessagesFollowText
  <2>1. Valid(i[1], i[2], text[i])' <=> Valid(i[1], i[2], text'[i])
    BY DEF Valid
  <2>2. i[1] \in Forms /\ i = << i[1], i[2] >>
    BY PagesAndInputs
  <2>3. CASE i = << f, n >>
    <3>1. text'[i] = t
      BY <1>0, <2>3 DEF Types
    <3>2. n \in shown'[f] <=> ~Valid(f, n, t)
      BY <1>0 DEF CheckElement, ShowLabel, onError, onSuccess, Types
    <3>3. QED
      BY <2>1, <2>3, <3>1, <3>2
  <2>4. CASE i # << f, n >>
    <3>1. text'[i] = text[i]
      BY <1>0, <2>4 DEF Types
    <3>2. i[1] # f \/ i[2] # n
      BY <2>2, <2>4
    <3>3. /\ i[2] \in submitted[i[1]]
          /\ i[2] \in shown'[i[1]] <=> i[2] \in shown[i[1]]
      BY <2>2, <3>2 DEF CheckElement, ShowLabel, onError, onSuccess, Types
    <3>4. QED
      BY <2>1, <3>1, <3>3 DEF MessagesFollowText
  <2>5. QED
    BY <2>3, <2>4
<1>4. QED
  BY <1>1, <1>2, <1>3

-----------------------------------------------------------------------------
(* The steps of the document and the script.                               *)

DocInv == Types /\ RulesInv /\ MessagesFollowText

\* A page opens with nothing submitted and no error.
LEMMA OpenInvariant == DocInv /\ (\E p \in Pages : Open(p)) => DocInv'
<1>1. Nothing \in [Forms -> SUBSET Names]
  BY DEF Nothing
<1>2. QED
  BY <1>1, NewTextType, NewDocuments DEF Open, DocInv

\* The script's start takes over forms that have shown nothing yet.
LEMMA ParseInvariant == DocInv /\ Parse => DocInv'
<1> SUFFICES ASSUME DocInv, Parse PROVE DocInv'
  OBVIOUS
<1>0. attached = {} /\ \A f \in Forms : submitted[f] = {}
  BY DEF Parse, DocInv, RulesInv
<1>1. Types'
  BY DEF Parse, attachValidation, DocInv, Types
<1>2. RulesInv'
  BY <1>0 DEF Parse, attachValidation, RulesInv
<1>3. MessagesFollowText'
  BY <1>0, PagesAndInputs DEF Parse, MessagesFollowText
<1>4. QED
  BY <1>1, <1>2, <1>3 DEF DocInv

\* An input that was never found wrong may be typed into without a check: it is not in
\* `submitted'.
LEMMA TypeInvariant ==
    ASSUME DocInv, NEW f \in Forms, NEW n \in NamesOf(f), NEW t \in Text, Type(f, n, t)
    PROVE  DocInv'
<1>0. n \in Names /\ << f, n >> \in Inputs
  BY PagesAndInputs
<1>1. CASE ChecksOnKey(f, n)
  BY <1>1, Checks DEF Type, ChecksOnKey, DocInv
<1>2. CASE ~ChecksOnKey(f, n)
  <2>1. Idle /\ n \notin submitted[f]
    BY <1>2 DEF Type, ChecksOnKey, DocInv, RulesInv
  <2>2. Types'
    BY <1>0, <2>1 DEF Type, Idle, DocInv, Types
  <2>3. RulesInv'
    BY <2>1 DEF Type, Idle, DocInv, RulesInv
  <2>4. MessagesFollowText'
    <3> SUFFICES ASSUME NEW i \in Inputs, i[2] \in submitted[i[1]]
                 PROVE  i[2] \in shown[i[1]] <=> ~Valid(i[1], i[2], text[i])'
      BY <2>1 DEF MessagesFollowText, Idle
    <3>1. i # << f, n >>
      BY <2>1
    <3>2. text'[i] = text[i]
      BY <1>0, <3>1 DEF Type, DocInv, Types
    <3>3. QED
      BY <3>2 DEF Type, DocInv, MessagesFollowText, Valid
  <2>5. QED
    BY <2>2, <2>3, <2>4 DEF DocInv
<1>3. QED
  BY <1>1, <1>2

\* An input that is left is checked, and its own container is set.
LEMMA LeaveInvariant ==
    ASSUME DocInv, NEW f \in Forms, NEW n \in NamesOf(f), Leave(f, n)
    PROVE  DocInv'
<1>1. << f, n >> \in Inputs
  BY PagesAndInputs
<1>2. text[<< f, n >>] \in Text /\ text' = [text EXCEPT ![<< f, n >>] = text[<< f, n >>]]
  BY <1>1 DEF Leave, DocInv, Types
<1>3. QED
  BY <1>2, Checks DEF Leave, DocInv

\* A submission checks every input of its form and of no other.
LEMMA SubmitInvariant ==
    ASSUME DocInv, NEW f \in Forms, Submit(f)
    PROVE  DocInv'
<1> DEFINE wrong == {n \in NamesOf(f) : ~Valid(f, n, text[<< f, n >>])}
<1>0. NamesOf(f) \subseteq Names
  BY PagesAndInputs
<1>1. CASE f \notin attached
  BY <1>1 DEF Submit, Idle, DocInv, Types, RulesInv, MessagesFollowText, Valid
<1>2. CASE f \in attached
  <2>1. /\ submitted' = [submitted EXCEPT ![f] = @ \union wrong]
        /\ invalid' = [invalid EXCEPT ![f] = wrong]
        /\ shown' = [shown EXCEPT ![f] =
                {n \in NamesOf(f) : n \in ShowLabel(@, n, n \notin wrong)}]
        /\ UNCHANGED << page, text, attached, rules >>
    BY <1>2 DEF Submit
  <2>2. \A n \in NamesOf(f) : n \in shown'[f] <=> n \in wrong
    BY <2>1 DEF ShowLabel, onError, onSuccess, DocInv, Types
  <2>3. shown'[f] \subseteq Names /\ wrong \subseteq Names
    BY <1>0, <2>1 DEF DocInv, Types
  <2> HIDE DEF wrong
  <2>4. Types'
    BY <2>1, <2>3 DEF DocInv, Types
  <2>5. RulesInv'
    BY <1>2, <2>1 DEF DocInv, Types, RulesInv
  <2>6. MessagesFollowText'
    <3> SUFFICES ASSUME NEW i \in Inputs, i[2] \in submitted'[i[1]]
                 PROVE  i[2] \in shown'[i[1]] <=> ~Valid(i[1], i[2], text[i])
      BY <2>1 DEF MessagesFollowText, Valid
    <3>1. i[1] \in Forms /\ i[2] \in NamesOf(i[1]) /\ i = << i[1], i[2] >>
      BY PagesAndInputs
    <3>2. CASE i[1] = f
      BY <2>2, <3>1, <3>2 DEF wrong
    <3>3. CASE i[1] # f
      BY <2>1, <3>1, <3>3 DEF DocInv, Types, MessagesFollowText
    <3>4. QED
      BY <3>2, <3>3
  <2>7. QED
    BY <2>4, <2>5, <2>6 DEF DocInv
<1>3. QED
  BY <1>1, <1>2

\* A response replaces the document or leaves it.
LEMMA ReceiveInvariant ==
    ASSUME DocInv, NEW k, Receive(k)
    PROVE  DocInv'
<1> DEFINE f == posts[k].form
           complaints == [Nothing EXCEPT ![f] = {n \in NamesOf(f) :
               ~(/\ Binds(n, text[<< f, n >>])
                 /\ Meets(n, Bound(n, text[<< f, n >>])))}]
<1>1. Nothing \in [Forms -> SUBSET Names]
  BY DEF Nothing
<1>2. complaints \in [Forms -> SUBSET Names]
  BY PagesAndInputs DEF Nothing
<1>3. page \in Pages /\ text \in [Inputs -> Text]
  BY DEF DocInv, Types
<1>4. \/ NewDocument(page, text, complaints)
      \/ \E p \in Pages : NewDocument(p, NewText, Nothing)
  BY DEF Receive
<1> HIDE DEF complaints
<1>5. QED
  BY <1>1, <1>2, <1>3, <1>4, NewTextType, NewDocuments DEF DocInv

\* The server's steps leave the document alone.
LEMMA UnchangedDocument == DocInv /\ UNCHANGED << page, text, script >> => DocInv'
BY DEF DocInv, Types, RulesInv, MessagesFollowText, Valid, script

-----------------------------------------------------------------------------
(* The posts.                                                              *)

\* What is kept of sound posts is sound.
LEMMA KeptPosts ==
    ASSUME NEW all, \A k \in DOMAIN all : Sound(all[k]), KeepPosts(all)
    PROVE  PostInv'
BY DEF KeepPosts, PostInv

\* A post is sound when it is made: the script has checked a form with a validator, the
\* server tests the form that creates a product, and nobody tests the others.
LEMMA NewPosts ==
    ASSUME DocInv, NEW f \in Forms,
           f \in attached => \A n \in NamesOf(f) : Valid(f, n, text[<< f, n >>])
    PROVE  Sound(NewPost(f, TextsIn(f)))
<1> DEFINE texts == TextsIn(f)
           sends == TestsModelState(f) => ModelStateIsValid(f, texts)
           fits  == \A n \in NamesOf(f) : InBounds(n, Bound(n, texts[n]))
           misread == \E n \in NamesOf(f) : ~ReadAlike(n, texts[n])
           rounded == \E n \in NamesOf(f) : RoundedIn(n, texts[n])
           post  == NewPost(f, texts)
<1>1. \A n \in NamesOf(f) : n \in Names /\ texts[n] = text[<< f, n >>] /\ texts[n] \in Text
  BY PagesAndInputs DEF TextsIn, DocInv, Types
<1>2. f \in attached /\ ~misread => fits /\ sends
  <2> SUFFICES ASSUME f \in attached, ~misread, NEW n \in NamesOf(f)
               PROVE  /\ Binds(n, texts[n])
                      /\ Meets(n, Bound(n, texts[n]))
                      /\ InBounds(n, Bound(n, texts[n]))
    BY DEF ModelStateIsValid
  <2>1. \A r \in ParseElement(n) : Passes(r, texts[n])
    BY <1>1 DEF DocInv, RulesInv, Valid
  <2>2. QED
    BY <1>1, <2>1, RulesAreTheAttributes
<1>3. f = "create" /\ sends /\ ~fits => rounded
  BY DEF TestsModelState, ModelStateIsValid, RoundedIn
<1>4. /\ post.form = f /\ post.checked = (f \in attached)
      /\ post.misread = misread /\ post.rounded = rounded /\ post.fits = fits
      /\ post.command = IF sends THEN "sent" ELSE "none"
      /\ post.answer = IF sends THEN "waiting" ELSE "rejected"
  BY DEF NewPost
<1>5. post \in Post
  BY DEF NewPost, Post, Commands, Answers
<1> HIDE DEF texts, sends, fits, misread, rounded, post
<1>6. Accounted(post)
  BY <1>2, <1>3, <1>4 DEF Accounted
<1>7. QED
  BY <1>5, <1>6 DEF Sound, post, texts

\* What is posted is what the script has checked, if it was ready.
LEMMA SubmitPosts ==
    ASSUME DocInv, PostInv, NEW f \in Forms, Submit(f)
    PROVE  PostInv'
<1>1. CASE UNCHANGED posts
  BY <1>1 DEF PostInv
<1>2. CASE Send(f) /\ (f \in attached => \A n \in NamesOf(f) : Valid(f, n, text[<< f, n >>]))
  <2>1. Sound(NewPost(f, TextsIn(f)))
    BY <1>2, NewPosts
  <2>2. PICK id : KeepPosts([k \in DOMAIN posts \union {id} |->
                      IF k = id THEN NewPost(f, TextsIn(f)) ELSE posts[k]])
    BY <1>2 DEF Send
  <2> DEFINE all == [k \in DOMAIN posts \union {id} |->
                        IF k = id THEN NewPost(f, TextsIn(f)) ELSE posts[k]]
  <2>3. \A k \in DOMAIN all : Sound(all[k])
    BY <2>1 DEF PostInv
  <2> HIDE DEF all
  <2>4. KeepPosts(all)
    BY <2>2 DEF all
  <2>5. QED
    BY <2>3, <2>4, KeptPosts
<1>3. QED
  BY <1>1, <1>2 DEF Submit

\* An entity settles a command once, and an answer does not change.
LEMMA SettlePosts ==
    ASSUME PostInv, NEW k \in DOMAIN posts, NEW command \in {"executed", "refused", "lost"},
           Settle(k, command)
    PROVE  PostInv'
<1> DEFINE all == [posts EXCEPT ![k].command = command]
<1>1. ASSUME NEW j \in DOMAIN all PROVE Sound(all[j])
  <2>1. CASE j = k
    <3>1. Sound(posts[k]) /\ posts[k].command = "sent"
      BY DEF PostInv, Settle
    <3>2. all[j] = [posts[k] EXCEPT !.command = command]
      BY <2>1
    <3> HIDE DEF all
    <3>3. /\ all[j] \in Post /\ all[j].command = command
          /\ all[j].form = posts[k].form /\ all[j].checked = posts[k].checked
          /\ all[j].misread = posts[k].misread /\ all[j].rounded = posts[k].rounded
          /\ all[j].fits = posts[k].fits /\ all[j].answer = posts[k].answer
      BY <3>1, <3>2 DEF Sound, Post, Commands
    <3>4. QED
      BY <3>1, <3>3 DEF Sound, Accounted
  <2>2. CASE j # k
    BY <2>2 DEF PostInv
  <2>3. QED
    BY <2>1, <2>2
<1>2. KeepPosts(all)
  BY DEF Settle
<1> HIDE DEF all
<1>3. QED
  BY <1>1, <1>2, KeptPosts

\* A page that answers has sent its command, and rejects nothing any more.
LEMMA ServePosts ==
    ASSUME PostInv, NEW k \in DOMAIN posts, Serve(k)
    PROVE  PostInv'
<1>1. PICK answer \in {"confirmed", "refused", "failed"} : Answer(k, answer)
  BY DEF Serve, Confirm, BadRequest, TimeOut
<1>2. \A j \in DOMAIN posts' : j # k => Sound(posts'[j])
  BY <1>1 DEF Answer, PostInv
<1>3. posts'[k] = [posts[k] EXCEPT !.answer = answer]
  BY <1>1 DEF Answer
<1>4. Sound(posts[k])
  BY DEF PostInv
<1>5. /\ posts'[k] \in Post /\ posts'[k].answer = answer
      /\ posts'[k].form = posts[k].form /\ posts'[k].checked = posts[k].checked
      /\ posts'[k].misread = posts[k].misread /\ posts'[k].rounded = posts[k].rounded
      /\ posts'[k].fits = posts[k].fits /\ posts'[k].command = posts[k].command
  BY <1>3, <1>4 DEF Sound, Post, Answers
<1>6. Sound(posts'[k])
  BY <1>4, <1>5 DEF Sound, Accounted
<1>7. QED
  BY <1>2, <1>6 DEF PostInv

-----------------------------------------------------------------------------
(* The theorems.                                                           *)

\* Every step preserves the invariant.
THEOREM Invariance == Spec => []IInv
<1>1. IInv /\ [Next]_vars => IInv'
  <2> SUFFICES ASSUME IInv, [Next]_vars PROVE IInv'
    OBVIOUS
  <2>0. DocInv /\ PostInv
    BY DEF IInv, DocInv
  <2>1. CASE \E p \in Pages : Open(p)
    <3>1. DocInv'
      BY <2>0, <2>1, OpenInvariant
    <3>2. PostInv'
      BY <2>0, <2>1, KeptPosts DEF Open, PostInv
    <3>3. QED
      BY <3>1, <3>2 DEF IInv, DocInv
  <2>2. CASE Parse
    <3>1. DocInv'
      BY <2>0, <2>2, ParseInvariant
    <3>2. QED
      BY <2>0, <2>2, <3>1 DEF Parse, PostInv, IInv, DocInv
  <2>3. ASSUME NEW f \in Forms, Submit(f) PROVE IInv'
    BY <2>0, <2>3, SubmitInvariant, SubmitPosts DEF IInv, DocInv
  <2>4. ASSUME NEW f \in Forms, NEW n \in NamesOf(f), Leave(f, n) PROVE IInv'
    <3>1. DocInv'
      BY <2>0, <2>4, LeaveInvariant
    <3>2. QED
      BY <2>0, <2>4, <3>1 DEF Leave, PostInv, IInv, DocInv
  <2>5. ASSUME NEW i \in Inputs, NEW t \in TextsOf[i], Type(i[1], i[2], t) PROVE IInv'
    <3>1. i[1] \in Forms /\ i[2] \in NamesOf(i[1]) /\ t \in Text
      BY PagesAndInputs, TextsAssumption
    <3>2. DocInv'
      BY <2>0, <2>5, <3>1, TypeInvariant
    <3>3. QED
      BY <2>0, <2>5, <3>2 DEF Type, PostInv, IInv, DocInv
  <2>6. ASSUME NEW k \in DOMAIN posts, Execute(k) \/ Refuse(k) \/ LoseIt(k) PROVE IInv'
    <3>1. PICK command \in {"executed", "refused", "lost"} : Settle(k, command)
      BY <2>6 DEF Execute, Refuse, LoseIt
    <3>2. DocInv'
      BY <2>0, <3>1, UnchangedDocument DEF Settle
    <3>3. PostInv'
      BY <2>0, <3>1, SettlePosts
    <3>4. QED
      BY <3>2, <3>3 DEF IInv, DocInv
  <2>7. ASSUME NEW k \in DOMAIN posts, Serve(k) PROVE IInv'
    <3>1. UNCHANGED << page, text, script >>
      BY <2>7 DEF Serve, Confirm, BadRequest, TimeOut, Answer
    <3>2. DocInv'
      BY <2>0, <3>1, UnchangedDocument
    <3>3. PostInv'
      BY <2>0, <2>7, ServePosts
    <3>4. QED
      BY <3>2, <3>3 DEF IInv, DocInv
  <2>8. ASSUME NEW k \in DOMAIN posts, Receive(k) PROVE IInv'
    <3>1. DocInv'
      BY <2>0, <2>8, ReceiveInvariant
    <3>2. PostInv'
      BY <2>0, <2>8, KeptPosts DEF Receive, PostInv
    <3>3. QED
      BY <3>1, <3>2 DEF IInv, DocInv
  <2>9. CASE UNCHANGED vars
    <3>1. DocInv'
      BY <2>0, <2>9, UnchangedDocument DEF vars
    <3>2. QED
      BY <2>0, <2>9, <3>1 DEF vars, PostInv, IInv, DocInv
  <2>10. QED
    BY <2>1, <2>2, <2>3, <2>4, <2>5, <2>6, <2>7, <2>8, <2>9 DEF Next
<1>2. QED
  BY <1>1, InitInvariant, PTL DEF Spec

\* A message is shown exactly as long as its own input is wrong, from the first time that
\* it was found so (onError, onSuccess, and the checks of jquery.validate).
THEOREM MessagesAreRight == Spec => []MessagesFollowText
<1>1. IInv => MessagesFollowText
  BY DEF IInv
<1>2. QED
  BY <1>1, Invariance, PTL

\* Values out of bounds get past the script, and past the server, in the known ways only,
\* whatever is typed and posted, and whatever each reader makes of it: the rules that the
\* adapters make are the attributes that the server tests.
THEOREM BoundsHold == Spec => []BoundsAreKept
<1>1. IInv => BoundsAreKept
  BY DEF IInv, PostInv, Sound, Accounted, BoundsAreKept, ScriptAndServerAgree,
         OutOfBoundsHasACause
<1>2. QED
  BY <1>1, Invariance, PTL

=============================================================================
