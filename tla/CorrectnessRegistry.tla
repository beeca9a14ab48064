------------------------ MODULE CorrectnessRegistry ------------------------
(***************************************************************************)
(* What the multi-writer coordinator promises, with no revisions, copies,  *)
(* indexes or steps: a registry of committed intents and recorded          *)
(* conflicts that only ever grows, where every decision is taken in one    *)
(* step against everything committed so far, and where only the holder of  *)
(* the latest grant may add to it.                                         *)
(***************************************************************************)
EXTENDS Naturals

CONSTANTS Writers, NoWriter, Intents, NoKey, IdOf

VARIABLES
  commits,   \* the committed intents
  conflicts, \* the recorded conflicts, each a set of parties and a reason
  holder,    \* the writer identity of the latest grant
  answers    \* every answer given to a caller

vars == <<commits, conflicts, holder, answers>>

Init ==
  /\ commits = {}
  /\ conflicts = {}
  /\ holder = NoWriter
  /\ answers = {}

Semantic(i) == <<i.operation, i.idempotent, i.key, i.scope, i.effect>>

SameKey(i, j) == i.key # NoKey /\ i.key = j.key

\* Two intents that may not both be committed.
Exclusive(i, j) ==
  \/ SameKey(i, j)
  \/ i.scope = j.scope /\ ~ (i.idempotent /\ j.idempotent)

Admissible(i) == \A j \in commits : ~ Exclusive(i, j)

Answer(i, status, authority) ==
  answers' = answers \cup {[intent |-> i, status |-> status, authority |-> authority]}

Grant(w) ==
  /\ holder' = w
  /\ UNCHANGED <<commits, conflicts, answers>>

Commit(w, i) ==
  /\ w = holder /\ i.writer = IdOf[w]
  /\ Admissible(i)
  /\ commits' = commits \cup {i}
  /\ Answer(i, "COMMITTED", i)
  /\ UNCHANGED <<conflicts, holder>>

\* A clash is put on record together with its answer.
Refuse(w, i) ==
  /\ w = holder /\ i.writer = IdOf[w]
  /\ \E j \in commits :
       /\ Exclusive(i, j) /\ i.scope = j.scope
       /\ \E reason \in {"key", "scope"} :
            conflicts' = conflicts \cup {[parties |-> {i, j}, reason |-> reason]}
       /\ Answer(i, "CONFLICT_RECONCILIATION_REQUIRED", j)
  /\ UNCHANGED <<commits, holder>>

\* A duplicate converges to the intent that holds its key.
Converge(i) ==
  /\ \E j \in commits :
       /\ SameKey(i, j) /\ Semantic(i) = Semantic(j)
       /\ Answer(i, "DUPLICATE_CONVERGED", j)
  /\ UNCHANGED <<commits, conflicts, holder>>

\* A clash already on record is reported again.
Report(i) ==
  /\ \E c \in conflicts, j \in commits :
       /\ c.parties = {i, j}
       /\ Answer(i, "CONFLICT_RECONCILIATION_REQUIRED", j)
  /\ UNCHANGED <<commits, conflicts, holder>>

Next ==
  \/ \E w \in Writers : Grant(w)
  \/ \E w \in Writers, i \in Intents : Commit(w, i) \/ Refuse(w, i)
  \/ \E i \in Intents : Converge(i) \/ Report(i)

Spec == Init /\ [][Next]_vars
=============================================================================
