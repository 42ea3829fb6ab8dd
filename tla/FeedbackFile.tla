---------------------------- MODULE FeedbackFile ----------------------------
(***************************************************************************)
(* The feedback file that the workers of a deployment share:               *)
(* FeedbackService (backend/services/feedback.py).  A worker reads the     *)
(* file once, when it starts, and rewrites it whole at each submission.    *)
(* Within a worker a submission has no await; between workers, and at a    *)
(* crash, opening the file (which empties it) and writing it are two steps.*)
(***************************************************************************)
EXTENDS Naturals, FiniteSets

CONSTANTS Worker,
          Feedback,   \* submissions, by their ids
          MaxCrashes  \* bound: crashes of workers

FileAssumption == Feedback # {} /\ MaxCrashes \in Nat

VARIABLES file,     \* whether the file parses, and the entries it then holds
          memory,   \* memory[w]: _feedback
          worker,   \* worker[w]: whether it runs, and whether it has the file open
          entry,    \* entry[w]: the submission that worker[w] = "writing" is about
          told,     \* told[f]: "nothing" before f is submitted, and what its client heard
          stale,    \* stale[w]: another worker has opened the file since w has read it
          spoiled,  \* one of the four mishaps below has happened
          crashes

vars == <<file, memory, worker, entry, told, stale, spoiled, crashes>>

\* A file that does not exist yet holds nothing, like one with an empty list
TypeOK ==
  /\ file \in [parses : BOOLEAN, entries : SUBSET Feedback]
  /\ memory \in [Worker -> SUBSET Feedback]
  /\ worker \in [Worker -> {"down", "up", "writing"}]
  /\ entry \in [Worker -> Feedback]
  /\ told \in [Feedback -> {"nothing", "wait", "thanks", "sorry"}]
  /\ stale \in [Worker -> BOOLEAN]
  /\ spoiled \in BOOLEAN
  /\ crashes \in 0..MaxCrashes

Init ==
  /\ file = [parses |-> TRUE, entries |-> {}]
  /\ memory = [w \in Worker |-> {}]
  /\ worker = [w \in Worker |-> "down"]
  /\ entry = [w \in Worker |-> CHOOSE f \in Feedback : TRUE]
  /\ told = [f \in Feedback |-> "nothing"]
  /\ stale = [w \in Worker |-> FALSE]
  /\ spoiled = FALSE
  /\ crashes = 0

Torn == [parses |-> FALSE, entries |-> {}]
Writing == {w \in Worker : worker[w] = "writing"}

\* Mutant: the file is not read
_load_nothing(w) ==
  /\ worker[w] = "down"
  /\ worker' = [worker EXCEPT ![w] = "up"]
  /\ memory' = [memory EXCEPT ![w] = {}]
  /\ stale' = [stale EXCEPT ![w] = FALSE]
  /\ spoiled' = (spoiled \/ Writing # {})
  /\ UNCHANGED <<file, entry, told, crashes>>

\* A file that does not parse is taken for an empty list.  First mishap: it is
\* read while another worker is writing it
_load_feedback(w) ==
  /\ worker[w] = "down"
  /\ worker' = [worker EXCEPT ![w] = "up"]
  /\ memory' = [memory EXCEPT ![w] = file.entries]
  /\ stale' = [stale EXCEPT ![w] = FALSE]
  /\ spoiled' = (spoiled \/ Writing # {})
  /\ UNCHANGED <<file, entry, told, crashes>>

\* The entry is appended and the file opened for writing.  Second mishap: the
\* worker has not seen what another one has written, or is about to write
_record_feedback(w, f) ==
  /\ worker[w] = "up" /\ told[f] = "nothing"
  /\ memory' = [memory EXCEPT ![w] = @ \union {f}]
  /\ file' = Torn
  /\ worker' = [worker EXCEPT ![w] = "writing"]
  /\ entry' = [entry EXCEPT ![w] = f]
  /\ told' = [told EXCEPT ![f] = "wait"]
  /\ stale' = [x \in Worker |-> stale[x] \/ x # w]
  /\ spoiled' = (spoiled \/ stale[w] \/ Writing # {})
  /\ UNCHANGED crashes

\* The file cannot be opened: the client gets an error, the list keeps the entry
OpenFails(w, f) ==
  /\ worker[w] = "up" /\ told[f] = "nothing"
  /\ memory' = [memory EXCEPT ![w] = @ \union {f}]
  /\ told' = [told EXCEPT ![f] = "sorry"]
  /\ UNCHANGED <<file, worker, entry, stale, spoiled, crashes>>

Ends(w, word) ==
  /\ worker[w] = "writing"
  /\ worker' = [worker EXCEPT ![w] = "up"]
  /\ told' = [told EXCEPT ![entry[w]] = word]
  /\ UNCHANGED <<memory, entry, stale, crashes>>

\* Two writers at once may leave a mixture
_save_feedback(w) ==
  /\ Ends(w, "thanks")
  /\ file' \in {[parses |-> TRUE, entries |-> memory[w]]}
                 \union IF spoiled THEN {Torn} ELSE {}
  /\ UNCHANGED spoiled

\* Third mishap: the write fails half way
WriteFails(w) ==
  /\ Ends(w, "sorry")
  /\ spoiled' = TRUE
  /\ UNCHANGED file

\* Fourth mishap: a crash while the file is open
Crash(w) ==
  /\ worker[w] # "down" /\ crashes < MaxCrashes
  /\ crashes' = crashes + 1
  /\ worker' = [worker EXCEPT ![w] = "down"]
  /\ memory' = [memory EXCEPT ![w] = {}]
  /\ told' = IF worker[w] = "writing" THEN [told EXCEPT ![entry[w]] = "sorry"] ELSE told
  /\ spoiled' = (spoiled \/ worker[w] = "writing")
  /\ UNCHANGED <<file, entry, stale>>

Next ==
  \E w \in Worker :
    \/ _load_feedback(w) \/ _save_feedback(w) \/ WriteFails(w) \/ Crash(w)
    \/ \E f \in Feedback : _record_feedback(w, f) \/ OpenFails(w, f)

Spec == Init /\ [][Next]_vars
-----------------------------------------------------------------------------
Thanked == {f \in Feedback : told[f] = "thanks"}

\* feedback.py:58-80, main.py:2635: feedback whose sender was thanked is in the
\* file, across any number of restarts, unless one of the four mishaps has
\* happened, none of which the code prevents or notices.
ThankedIsKept ==
  ~spoiled /\ Writing = {} => file.parses /\ Thanked \subseteq file.entries
=============================================================================
