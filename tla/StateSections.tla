---------------------------- MODULE StateSections ----------------------------
(***************************************************************************)
(* The services beside the operator tasks keep their records in sections   *)
(* of the one state document.  Each method loads the document, decides on  *)
(* its section, replaces it and saves the document; the methods are plain  *)
(* functions that the event loop runs one after the other, so a method is  *)
(* one action (StateDocument has the ones that overlap in threads).  A     *)
(* method that raises has saved nothing: it is no step at all.             *)
(***************************************************************************)
EXTENDS Naturals, FiniteSets, SequencesExt

CONSTANT Nothing   \* no value

VARIABLES
  state,    \* the document: a section of it by the name of the section
  memory,   \* what the services of the running process keep in memory
  outside   \* what they read and others write: integration heads, the clock

Optional(S) == S \cup {Nothing}

\* A dict with the value at the key.
With(f, k, v) == [x \in {k} \cup DOMAIN f |-> IF x = k THEN v ELSE f[x]]

\* The section is replaced and the document saved.
Save(section, value) ==
  /\ state' = [state EXCEPT ![section] = value]
  /\ UNCHANGED <<memory, outside>>

\* The same for a section that is kept in memory and saved from there.
Keep(section, value) ==
  /\ memory' = [memory EXCEPT ![section] = value]
  /\ state' = [state EXCEPT ![section] = value]
  /\ UNCHANGED outside

(***************************************************************************)
(* Registries keep every snapshot they were given, by source revision.     *)
(* The same revision with the same content is returned again, with another *)
(* content it is refused; what came in last is the current one.            *)
(***************************************************************************)
KnownNever(history, snapshot) == FALSE   \* mutant: a revision may come again
Known(history, snapshot) == \E old \in ToSet(history) : old.revision = snapshot.revision

\* No two snapshots of a history have one revision.
OneOfARevision(history) ==
  \A i, j \in DOMAIN history : history[i].revision = history[j].revision => i = j

Positions(s, Test(_)) == {i \in DOMAIN s : Test(s[i])}
=============================================================================
