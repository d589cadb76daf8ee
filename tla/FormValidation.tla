--------------------------- MODULE FormValidation ---------------------------
(***************************************************************************)
(* The two web pages with forms: the product page, whose forms order or    *)
(* supply a quantity, and the page that creates a product.  A script turns *)
(* the data-val-* attributes of the inputs into rules once the document is *)
(* ready, checks them while the user types and before a form is posted,    *)
(* and shows what is wrong.  The server binds what is posted, tests it     *)
(* against the same attributes on one page only, and asks the entity.      *)
(*                                                                         *)
(* An input is a pair of its form and its name: the two forms of the pro-  *)
(* duct page have an input of the same name.  A message is its presence.   *)
(* The pages have no summary for the script to fill and no reset button,   *)
(* so onErrors finds nothing and onReset is never called.  The adapters    *)
(* and methods that no attribute of these pages names are left out.        *)
(*                                                                         *)
(* The script and the server do not read a text alike: to the one 1e3 and  *)
(* 1.0 are numbers and six blanks a name, and it compares doubles; the     *)
(* other has a reader for each type of property, takes blanks for nothing, *)
(* and compares a price after it was rounded.  A text is a record of what  *)
(* each of them makes of it.                                               *)
(***************************************************************************)
EXTENDS Integers, FiniteSets

CONSTANTS NaN,        \* what is not a number to a reader
          TextsOf,    \* what a user types into an input
          MaxOpen     \* bound on posts that are not settled

VARIABLES
    page,        \* the document: "product" or "create"
    text,        \* of each input
    attached,    \* the forms that have a validator
    rules,       \* of each form and name: the rules that the script has made
    submitted,   \* validator.submitted: names of which a check has failed
    invalid,     \* validator.invalid: names that the last checks have seen
    shown,       \* of each form: the names whose container shows an error
    waiting,     \* the post whose response the browser waits for, 0 if none
    posts        \* the post that the browser waits for, and those with a command under way

script == << attached, rules, submitted, invalid, shown >>
vars   == << page, text, script, waiting, posts >>

-----------------------------------------------------------------------------
(* The pages, their inputs, and the attributes of the bound properties.    *)

Pages == {"product", "create"}
FormsOf(p) == IF p = "product" THEN {"newOrder", "newSupply"} ELSE {"create"}
Forms == {"newOrder", "newSupply", "create"}
NamesOf(f) ==
    IF f = "create" THEN {"ProductName", "Price", "InitialQuantity"} ELSE {"Quantity"}
Names  == {"Quantity", "ProductName", "Price", "InitialQuantity"}
Inputs == {i \in Forms \X Names : i[2] \in NamesOf(i[1])}

Attribute(name, params) == [name |-> name, params |-> params]
NoParams == << >>

\* Numbers are in quarters, which tell apart what lies below, at and above a half.
Quarters(n) == 4 * n
RangeAttribute(min, max) ==
    Attribute("range", [min |-> Quarters(min), max |-> Quarters(max)])

\* A property that cannot be null is required as well, and a decimal has to be a number.
AttributesOf(n) ==
    CASE n = "Quantity" ->
            {Attribute("required", NoParams), RangeAttribute(1, 10000)}
      [] n = "ProductName" ->
            {Attribute("required", NoParams), Attribute("minlength", [min |-> 6]),
             Attribute("maxlength", [max |-> 50])}
      [] n = "Price" ->
            {Attribute("required", NoParams), Attribute("number", NoParams),
             RangeAttribute(1, 100000)}
      [] n = "InitialQuantity" ->
            {Attribute("required", NoParams), RangeAttribute(0, 100000)}

IntegerNames == {"Quantity", "InitialQuantity"}

\* A text by what is made of it.
Text == [length : Nat,
         blank : BOOLEAN,            \* it is empty or white space
         number : BOOLEAN,           \* it matches the expression of the method `number'
         script : Int \union {NaN},  \* as JavaScript compares it, in quarters
         int : Int \union {NaN},     \* as the reader of an int reads it, a whole number
         decimal : Int \union {NaN}] \* as the reader of a decimal reads it, in quarters

ASSUME NaNAssumption == NaN \notin Int
ASSUME TextsAssumption == TextsOf \in [Inputs -> SUBSET Text]

Within(v, params) ==
    /\ "min" \in DOMAIN params => params.min <= v
    /\ "max" \in DOMAIN params => v <= params.max

\* The text of a whole number of one digit, which everybody reads alike.
Digit(d) == [length |-> 1, blank |-> FALSE, number |-> TRUE,
             script |-> Quarters(d), int |-> d, decimal |-> Quarters(d)]

\* No text: to JavaScript, nothing is 0.
Empty == [length |-> 0, blank |-> TRUE, number |-> TRUE,
          script |-> 0, int |-> NaN, decimal |-> NaN]

\* What an input holds in a new document: Quantity is 0, and there is no Product.
NewText == [i \in Inputs |-> IF i[2] = "Quantity" THEN Digit(0) ELSE Empty]

-----------------------------------------------------------------------------
(* The rules that the script makes of the attributes.                      *)

Rule(name, value) == {[name |-> name, value |-> value]}

\* Mutant of AddMinMax: a rule with both bounds keeps one.
AddMinMax_MinOnly(params, minRule, maxRule, minMaxRule) ==
    IF "min" \in DOMAIN params THEN Rule(minRule, [min |-> params.min])
    ELSE Rule(maxRule, params)

AddMinMax(params, minRule, maxRule, minMaxRule) ==
    CASE {"min", "max"} \subseteq DOMAIN params -> Rule(minMaxRule, params)
      [] DOMAIN params = {"min"} -> Rule(minRule, params)
      [] DOMAIN params = {"max"} -> Rule(maxRule, params)
      [] OTHER -> {}

Adapt(a) ==
    CASE a.name = "required"  -> Rule("required", NoParams)
      [] a.name = "number"    -> Rule("number", NoParams)
      [] a.name = "range"     -> AddMinMax(a.params, "min", "max", "range")
      [] a.name = "minlength" -> AddMinMax(a.params, "minlength", "none", "none")
      [] a.name = "maxlength" -> AddMinMax(a.params, "minlength", "maxlength", "none")

ParseElement(n) ==
    Rule("__dummy__", NoParams) \union UNION {Adapt(a) : a \in AttributesOf(n)}

\* The methods of jquery.validate: all but `required' pass on an empty value, and nothing
\* is trimmed.  A comparison with NaN is false.
Passes(r, t) ==
    CASE r.name = "required"  -> t.length > 0
      [] r.name = "__dummy__" -> TRUE
      [] r.name = "number"    -> t.length = 0 \/ t.number
      [] r.name \in {"range", "min", "max"} ->
            t.length = 0 \/ (t.script # NaN /\ Within(t.script, r.value))
      [] r.name \in {"minlength", "maxlength"} ->
            t.length = 0 \/ Within(t.length, r.value)

-----------------------------------------------------------------------------
(* The document and the script.                                            *)

Nothing == [f \in Forms |-> {}]
NewDocument(p, texts, complaints) ==
    /\ page' = p /\ text' = texts
    /\ attached' = {} /\ submitted' = Nothing /\ invalid' = Nothing
    /\ rules' = [f \in Forms |-> [n \in NamesOf(f) |-> {}]]
    /\ shown' = complaints
    /\ waiting' = 0

\* A post that is settled, and whose response nobody waits for, is forgotten.
KeepPosts(all) ==
    posts' = [k \in {j \in DOMAIN all : j = waiting' \/ all[j].command = "sent"} |-> all[k]]

Init ==
    /\ page \in Pages /\ text = NewText
    /\ attached = {} /\ submitted = Nothing /\ invalid = Nothing
    /\ rules = [f \in Forms |-> [n \in NamesOf(f) |-> {}]]
    /\ shown = Nothing
    /\ waiting = 0 /\ posts = << >>

\* The user opens a page; a response that was awaited is no longer.
Open(p) == NewDocument(p, NewText, Nothing) /\ KeepPosts(posts)

\* A validator, whose errorPlacement is onError and whose success is onSuccess.
attachValidation == attached' = FormsOf(page)

\* The document is ready: every input is parsed, then every form gets its validator.
Parse ==
    /\ attached = {}
    /\ attachValidation
    /\ rules' = [f \in Forms |-> [n \in NamesOf(f) |->
                    IF f \in FormsOf(page) THEN ParseElement(n) ELSE {}]]
    /\ UNCHANGED << page, text, submitted, invalid, shown, waiting, posts >>

\* The rules that hold of a text in an input.
Valid(f, n, t) == \A r \in rules[f][n] : Passes(r, t)

onError(complaints, n) == complaints \union {n}

\* Mutant of onSuccess: the container keeps its class.
onSuccess_Kept(complaints, n) == complaints

onSuccess(complaints, n) == complaints \ {n}

\* A label is made and placed for a value that passes as well, and then cleared.
ShowLabel(complaints, n, ok) ==
    LET placed == onError(complaints, n) IN IF ok THEN onSuccess(placed, n) ELSE placed

\* validator.element
CheckElement(f, n, t) ==
    LET ok == Valid(f, n, t) IN
    /\ submitted' = [submitted EXCEPT ![f] = IF ok THEN @ ELSE @ \union {n}]
    /\ invalid' = [invalid EXCEPT ![f] = @ \union {n}]
    /\ shown' = [shown EXCEPT ![f] = ShowLabel(@, n, ok)]

Idle == UNCHANGED << submitted, invalid, shown >>

ChecksOnKey(f, n) == f \in attached /\ n \in submitted[f] \union invalid[f]

Type(f, n, t) ==
    /\ f \in FormsOf(page) /\ waiting = 0
    /\ text' = [text EXCEPT ![<< f, n >>] = t]
    /\ IF ChecksOnKey(f, n) THEN CheckElement(f, n, t) ELSE Idle
    /\ UNCHANGED << page, attached, rules, waiting, posts >>

Leave(f, n) ==
    /\ f \in attached /\ waiting = 0
    /\ n \in submitted[f] \/ text[<< f, n >>].length > 0
    /\ CheckElement(f, n, text[<< f, n >>])
    /\ UNCHANGED << page, text, attached, rules, waiting, posts >>

-----------------------------------------------------------------------------
(* The server.                                                             *)

\* Whether the property could be read: an int has neither a point nor an exponent, and a
\* text that is blank gives no value, which the required name needs.
Binds(n, t) ==
    CASE n \in IntegerNames -> t.int # NaN
      [] n = "Price"        -> t.decimal # NaN
      [] OTHER              -> ~t.blank

\* The value of the property, or the length of the name: 0 for what could not be read.
Bound(n, t) ==
    IF ~Binds(n, t) THEN 0
    ELSE CASE n \in IntegerNames -> Quarters(t.int)
           [] n = "Price"        -> t.decimal
           [] OTHER              -> t.length

\* Convert.ToInt32: to the nearest whole number, from a half to the even one.
ToInt32(v) ==
    LET whole == v \div 4
        rest  == v % 4
    IN  IF rest < 2 \/ (rest = 2 /\ whole % 2 = 0) THEN whole ELSE whole + 1

InBounds(n, v) == \A a \in AttributesOf(n) : Within(v, a.params)

\* The bounds of the price are integers, and the test makes an integer of the price.  (One
\* beyond 32 bits makes it throw: an error page instead of a rejection.)
Meets(n, v) == InBounds(n, IF n = "Price" THEN Quarters(ToInt32(v)) ELSE v)

\* ModelState.IsValid
ModelStateIsValid(f, texts) ==
    \A n \in NamesOf(f) : Binds(n, texts[n]) /\ Meets(n, Bound(n, texts[n]))

\* Mutant of TestsModelState: the page that creates a product trusts the script.
TestsModelState_Never(f) == FALSE

TestsModelState(f) == f = "create"

Answers  == {"waiting", "confirmed", "refused", "rejected", "failed"}
Commands == {"none", "sent", "executed", "refused", "lost"}
Post == [form : Forms,
         checked : BOOLEAN,  \* history: the form had a validator
         misread : BOOLEAN,  \* history: the server read something else than the script
         rounded : BOOLEAN,  \* history: the price was rounded into its bounds
         fits : BOOLEAN,     \* history: all values that were bound are in their bounds
         command : Commands, \* what became of the command to the entity
         answer : Answers]   \* what the page returned

\* The script and the server take a text for the same.
ReadAlike(n, t) ==
    CASE n \in IntegerNames -> t.int # NaN /\ t.script = Quarters(t.int)
      [] n = "Price"        -> t.decimal # NaN /\ t.script = t.decimal
      [] OTHER              -> ~t.blank

\* A value that the server lets pass beyond its bounds.
RoundedIn(n, t) == Meets(n, Bound(n, t)) /\ ~InBounds(n, Bound(n, t))

NewPost(f, texts) ==
    LET sends == TestsModelState(f) => ModelStateIsValid(f, texts) IN
    [form     |-> f,
     checked  |-> f \in attached,
     misread  |-> \E n \in NamesOf(f) : ~ReadAlike(n, texts[n]),
     rounded  |-> \E n \in NamesOf(f) : RoundedIn(n, texts[n]),
     fits     |-> \A n \in NamesOf(f) : InBounds(n, Bound(n, texts[n])),
     command  |-> IF sends THEN "sent" ELSE "none",
     answer   |-> IF sends THEN "waiting" ELSE "rejected"]

TextsIn(f) == [n \in NamesOf(f) |-> text[<< f, n >>]]

FreeIds == 1 .. MaxOpen \ DOMAIN posts
Send(f) ==
    LET id == CHOOSE k \in FreeIds : \A j \in FreeIds : k <= j IN
    /\ FreeIds # {}
    /\ waiting' = id
    /\ KeepPosts([k \in DOMAIN posts \union {id} |->
                    IF k = id THEN NewPost(f, TextsIn(f)) ELSE posts[k]])

\* The submit handler of the validator: the form is posted when all of it passes.  A form
\* without a validator is posted as it is.  Nothing disables the button: a user who is
\* waiting can press it again.
Submit(f) ==
    LET wrong == {n \in NamesOf(f) : ~Valid(f, n, text[<< f, n >>])} IN
    /\ f \in FormsOf(page)
    /\ IF f \notin attached
       THEN Send(f) /\ Idle
       ELSE /\ submitted' = [submitted EXCEPT ![f] = @ \union wrong]
            /\ invalid' = [invalid EXCEPT ![f] = wrong]
            /\ shown' = [shown EXCEPT ![f] =
                    {n \in NamesOf(f) : n \in ShowLabel(@, n, n \notin wrong)}]
            /\ IF wrong = {} THEN Send(f) ELSE UNCHANGED << waiting, posts >>
    /\ UNCHANGED << page, text, attached, rules >>

Settle(k, command) ==
    /\ posts[k].command = "sent"
    /\ UNCHANGED << page, text, script, waiting >>
    /\ KeepPosts([posts EXCEPT ![k].command = command])

\* The entity executes or refuses the command, or stops before it does.
Execute(k) == Settle(k, "executed")
Refuse(k)  == Settle(k, "refused")
LoseIt(k)  == Settle(k, "lost")

\* The server answers every post; an answer that nobody waits for has no effect.
Answer(k, answer) ==
    /\ waiting = k /\ posts[k].answer = "waiting"
    /\ posts' = [posts EXCEPT ![k].answer = answer]
    /\ UNCHANGED << page, text, script, waiting >>

\* A response tells success; the page that creates does not look.
Confirms(k) ==
    \/ posts[k].command = "executed"
    \/ posts[k].command = "refused" /\ posts[k].form = "create"

Confirm(k)    == Confirms(k) /\ Answer(k, "confirmed")

BadRequest(k) == posts[k].command = "refused" /\ ~Confirms(k) /\ Answer(k, "refused")

\* 3 seconds have passed.
TimeOut(k)    == Answer(k, "failed")

\* The browser gets the response that it waits for: a new document, with what was typed
\* and what is wrong with it when the page was rejected.
Receive(k) ==
    LET f == posts[k].form IN
    /\ waiting = k /\ posts[k].answer # "waiting"
    /\ IF posts[k].answer = "rejected"
       THEN NewDocument(page, text, [Nothing EXCEPT ![f] = {n \in NamesOf(f) :
                ~(/\ Binds(n, text[<< f, n >>])
                  /\ Meets(n, Bound(n, text[<< f, n >>])))}])
       ELSE \E p \in Pages : NewDocument(p, NewText, Nothing)
    /\ KeepPosts(posts)

-----------------------------------------------------------------------------
Serve(k) == Confirm(k) \/ BadRequest(k) \/ TimeOut(k)

Next ==
    \/ \E p \in Pages : Open(p)
    \/ Parse
    \/ \E f \in Forms : Submit(f) \/ \E n \in NamesOf(f) : Leave(f, n)
    \/ \E i \in Inputs : \E t \in TextsOf[i] : Type(i[1], i[2], t)
    \/ \E k \in DOMAIN posts :
        \/ Execute(k) \/ Refuse(k) \/ LoseIt(k)
        \/ Serve(k) \/ Receive(k)

Spec == Init /\ [][Next]_vars

-----------------------------------------------------------------------------
(* Properties.                                                             *)

\* From the first time that an input was found wrong, its own container shows an error
\* exactly as long as what it holds is wrong: a correction clears it at once, a new
\* mistake brings it back, and the input of the same name in the other form has no part.
MessagesFollowText ==
    \A i \in Inputs : i[2] \in submitted[i[1]] =>
        (i[2] \in shown[i[1]] <=> ~Valid(i[1], i[2], text[i]))

\* The script and the server have the same attributes: what the script lets pass has
\* values in their bounds and is not rejected, unless the two read the text differently.
\* The script takes 1e3, 1.0 or blanks for a number that the reader of an int cannot read,
\* blanks for a name, and a price that is nearly its bound for the bound.
ScriptAndServerAgree ==
    \A k \in DOMAIN posts : posts[k].checked /\ ~posts[k].misread =>
        posts[k].fits /\ posts[k].answer # "rejected"

\* A command with a value out of bounds reaches the entity only from a post that was made
\* before the script was ready, or whose text the script read differently; and from the
\* page that creates products, which looks at ModelState, only with a price that the
\* server rounds into its bounds.
OutOfBoundsHasACause ==
    \A k \in DOMAIN posts : posts[k].command # "none" /\ ~posts[k].fits =>
        /\ ~posts[k].checked \/ posts[k].misread
        /\ posts[k].form = "create" => posts[k].rounded

\* Values out of bounds get past the script, and past the server, by these ways only.
BoundsAreKept == ScriptAndServerAgree /\ OutOfBoundsHasACause

=============================================================================
