------------------------------ MODULE Metrics -------------------------------
(***************************************************************************)
(* metrics.py in multiprocess mode: every pool child counts in a file of   *)
(* its own, and a scrape of the worker adds up all files in the directory. *)
(***************************************************************************)
EXTENDS Tally

CONSTANT Child    (* places in the pool                                   *)

VARIABLES
  file,      (* file[c]: the counters of the child in place c             *)
  kept,      (* the counters in files of children that are gone           *)
  counted    (* history: increments since the worker started              *)

metricVars == <<file, kept, counted>>

Templates == {"listed", "unlisted"}
Outcome   == {"success", "failure", "retry"}

(* provision_total and teardown_total; a provision that fails before its   *)
(* row is read has the template "unknown".                                 *)
Series ==
  [task : {"provision"}, template : Templates \cup {"unknown"}, outcome : Outcome]
    \cup [task : {"teardown"}, outcome : Outcome]

NoCounts == [s \in Series |-> 0]

MetricsTypeOK ==
  /\ file \in [Child -> [Series -> Nat]]
  /\ kept \in [Series -> Nat] /\ counted \in [Series -> Nat]
MetricsInit == file = [c \in Child |-> NoCounts] /\ kept = NoCounts /\ counted = NoCounts

Inc(c, s) ==
  /\ file' = [file EXCEPT ![c][s] = @ + 1]
  /\ counted' = [counted EXCEPT ![s] = @ + 1]
  /\ UNCHANGED kept

(* The files of a child go with it.                                        *)
MarkDead_Removes(c) == file' = [file EXCEPT ![c] = NoCounts] /\ UNCHANGED <<kept, counted>>
(* A child ends; its counter files stay where they are.                    *)
MarkDead(c) ==
  /\ file' = [file EXCEPT ![c] = NoCounts]
  /\ kept' = [s \in Series |-> kept[s] + file[c][s]]
  /\ UNCHANGED counted

(* The directory is left as it is.                                         *)
PrepareDir_Keeps == counted' = NoCounts /\ UNCHANGED <<file, kept>>
(* worker_init: the directory is emptied before the pool is forked.        *)
PrepareDir ==
  /\ file' = [c \in Child |-> NoCounts] /\ kept' = NoCounts
  /\ counted' = NoCounts

(* What the collector reports of s.                                        *)
Scrape(s) == kept[s] + Total([c \in Child |-> file[c][s]], Child)
=============================================================================
