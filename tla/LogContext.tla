----------------------------- MODULE LogContext -----------------------------
(***************************************************************************)
(* observability.py bind_env_id: the id that a process puts on every line  *)
(* it logs, and the tokens that the blocks it is in keep for their exit.   *)
(***************************************************************************)
EXTENDS Clock, SequencesExt

CONSTANTS
  Process,  (* processes that log                                         *)
  NoEnv     (* no id is bound                                             *)

ASSUME LogAssumption == NoEnv \notin Env

VARIABLES
  ctx,      (* ctx[p]: the id on the lines of p                           *)
  tokens    (* tokens[p]: what each block p is in puts back, outer first  *)

logVars == <<ctx, tokens>>

LogTypeOK ==
  /\ ctx \in [Process -> Env \cup {NoEnv}]
  /\ \A p \in Process : tokens[p] \in Seq(Env \cup {NoEnv}) /\ Len(tokens[p]) <= 2
LogInit ==
  /\ ctx = [p \in Process |-> NoEnv]
  /\ tokens = [p \in Process |-> <<>>]

Enter(p, e) ==
  /\ ctx' = [ctx EXCEPT ![p] = e]
  /\ tokens' = [tokens EXCEPT ![p] = Append(@, ctx[p])]

(* The variable is cleared.                                                *)
Exit_Clears(p) ==
  /\ ctx' = [ctx EXCEPT ![p] = NoEnv]
  /\ tokens' = [tokens EXCEPT ![p] = Front(@)]
(* The block ends, normally or by an exception: the variable is reset.     *)
Exit(p) ==
  /\ ctx' = [ctx EXCEPT ![p] = Last(tokens[p])]
  /\ tokens' = [tokens EXCEPT ![p] = Front(@)]

(* The process is replaced.                                                *)
Forget(P) ==
  /\ ctx' = [p \in Process |-> IF p \in P THEN NoEnv ELSE ctx[p]]
  /\ tokens' = [p \in Process |-> IF p \in P THEN <<>> ELSE tokens[p]]
=============================================================================
