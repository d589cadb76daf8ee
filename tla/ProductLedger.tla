---------------------------- MODULE ProductLedger ----------------------------
(***************************************************************************)
(* What one product entity promises to those who ask it: a single durable  *)
(* ledger on which commands take effect atomically and one after another.  *)
(* A command is judged on the whole ledger as it stands, a success is      *)
(* reported at most once and only for a command that is in the ledger, and *)
(* a read shows the ledger as it is.  Failures, snapshots, replays and the *)
(* mailbox do not exist here; ProductTotals is shown to implement it.      *)
(***************************************************************************)
EXTENDS ProductState

CONSTANTS Commands,  \* the commands of this product, each sent at most once
          Fetches    \* identities of the FetchProduct queries

VARIABLES ledger,    \* the events, in order
          product,   \* the sum of the events
          executed,  \* the commands whose events are in the ledger
          replies,   \* the command responses each sender received
          views      \* the states each query was answered with

vars == << ledger, product, executed, replies, views >>

Init ==
    /\ ledger = << >>
    /\ product = EmptyState
    /\ executed = {}
    /\ replies = [c \in Commands |-> << >>]
    /\ views = [f \in Fetches |-> << >>]

\* The command takes effect: all its events, or none.
Execute(c) ==
    \E now \in Times :
      LET es == ProcessCommand(product, c, now) IN
      /\ c \notin executed
      /\ es # << >>
      /\ ledger' = ledger \o es
      /\ product' = Unfold(product, es)[Len(es)]
      /\ executed' = executed \cup {c}
      /\ UNCHANGED << replies, views >>

Confirm(c) ==
    /\ c \in executed
    /\ replies[c] = << >>
    /\ replies' = [replies EXCEPT ![c] = << "success" >>]
    /\ UNCHANGED << ledger, product, executed, views >>

Refuse(c) ==
    /\ c \notin executed
    /\ replies[c] = << >>
    /\ \E now \in Times : ProcessCommand(product, c, now) = << >>
    /\ replies' = [replies EXCEPT ![c] = << "failure" >>]
    /\ UNCHANGED << ledger, product, executed, views >>

Read(f) ==
    /\ views[f] = << >>
    /\ views' = [views EXCEPT ![f] = << product >>]
    /\ UNCHANGED << ledger, product, executed, replies >>

Next ==
    \/ \E c \in Commands : Execute(c) \/ Confirm(c) \/ Refuse(c)
    \/ \E f \in Fetches : Read(f)

Spec == Init /\ [][Next]_vars

=============================================================================
