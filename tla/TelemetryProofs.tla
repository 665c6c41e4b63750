-------------------------- MODULE TelemetryProofs ---------------------------
(***************************************************************************)
(* What the worker logs and counts is right, for any number of             *)
(* environments and processes, any retries and any kills: the ids on the   *)
(* lines, what a scrape reports, and the verdicts for the tasks sent.      *)
(***************************************************************************)
EXTENDS Telemetry, SequenceTheorems, TallyProofs, TLAPS

LEMMA OneToken ==
  ASSUME NEW a
  PROVE  /\ Append(<< >>, a) = <<a>>
         /\ Last(<<a>>) = a /\ Front(<<a>>) = << >> /\ Len(<<a>>) = 1
  BY DEF Last, Front

LEMMA TwoTokens ==
  ASSUME NEW a, NEW b
  PROVE  /\ Append(<<a>>, b) = <<a, b>>
         /\ Last(<<a, b>>) = b /\ Front(<<a, b>>) = <<a>> /\ Len(<<a, b>>) = 2
  <1>1. <<a, b>> \in Seq({a, b}) /\ Len(<<a, b>>) = 2
    OBVIOUS
  <1>2. /\ Front(<<a, b>>) \in Seq({a, b}) /\ Len(Front(<<a, b>>)) = 1
        /\ Front(<<a, b>>)[1] = a
    BY <1>1, SubSeqProperties DEF Front
  <1>3. Front(<<a, b>>) = <<a>>
    BY <1>2
  <1>4. Append(<<a>>, b) = <<a, b>>
    <2>1. /\ Append(<<a>>, b) \in Seq({a, b}) /\ Len(Append(<<a>>, b)) = 2
          /\ Append(<<a>>, b)[1] = a /\ Append(<<a>>, b)[2] = b
      BY <<a>> \in Seq({a, b}), Len(<<a>>) = 1, <<a>>[1] = a
    <2>2. \A i \in 1 .. 2 : Append(<<a>>, b)[i] = <<a, b>>[i]
      BY <2>1
    <2> QED BY <1>1, <2>1, <2>2, SeqEqual
  <1>5. Last(<<a, b>>) = b
    BY <1>1 DEF Last
  <1> QED BY <1>1, <1>3, <1>4, <1>5

(* What a child can hold to put back.                                      *)
Stack == {<< >>} \cup {<<a>> : a \in Env \cup {NoEnv}}
                 \cup {<<a, b>> : a, b \in Env \cup {NoEnv}}

Types ==
  /\ pc \in [Child -> {"idle"} \cup InTask \cup InSweep]
  /\ job \in [Child -> Msg \cup {NoJob}] /\ about \in [Child -> Env \cup {NoEnv}]
  /\ ctx \in [Child -> Env \cup {NoEnv}] /\ tokens \in [Child -> Stack]

(* What the blocks a child is in will put back, at each place it can be.   *)
Blocks(c) ==
  /\ pc[c] \in {"idle", "sweep"} =>
       ctx[c] = NoEnv /\ tokens[c] = << >> /\ job[c] = NoJob /\ about[c] = NoEnv
  /\ pc[c] \in InTask => job[c] # NoJob /\ ctx[c] = job[c].env /\ about[c] = NoEnv
  /\ pc[c] \in InTask \ {"inner"} => tokens[c] = <<NoEnv>>
  /\ pc[c] = "inner" => tokens[c] = <<NoEnv, job[c].env>>
  /\ pc[c] \in InSweep \ {"sweep"} => job[c] = NoJob
  /\ pc[c] \in {"swept", "purge"} => ctx[c] = about[c]
  /\ pc[c] = "swept" => tokens[c] = <<NoEnv>>
  /\ pc[c] = "purge" => tokens[c] = <<NoEnv, about[c]>>
  /\ pc[c] = "unwind" => tokens[c] = <<NoEnv>> \/ tokens[c] = <<NoEnv, about[c]>>

BlockInv == Types /\ \A c \in Child : Blocks(c)

Same(c) ==
  /\ pc'[c] = pc[c] /\ job'[c] = job[c] /\ about'[c] = about[c]
  /\ ctx'[c] = ctx[c] /\ tokens'[c] = tokens[c]

(* A step of one child says nothing of the others.                         *)
LEMMA OneChild ==
  ASSUME BlockInv, NEW c \in Child, Types', Blocks(c)',
         \A d \in Child \ {c} : Same(d)
  PROVE  BlockInv'
  <1>1. ASSUME NEW d \in Child \ {c} PROVE Blocks(d)'
    BY <1>1 DEF BlockInv, Blocks, Same
  <1> QED BY <1>1 DEF BlockInv

(* An attempt that goes on outside an inner block.                         *)
LEMMA GoesOn ==
  ASSUME BlockInv, NEW c \in Child, pc[c] \in InTask \ {"inner"},
         NEW l \in InTask \ {"inner"}, Goto(c, l),
         UNCHANGED <<job, about, ctx, tokens>>
  PROVE  BlockInv'
  <1>1. Types'
    BY DEF BlockInv, Types, Goto
  <1>2. pc'[c] = l
    BY DEF BlockInv, Types, Goto
  <1>3. Blocks(c)'
    BY <1>2 DEF BlockInv, Blocks, InTask, InSweep
  <1>4. \A d \in Child \ {c} : Same(d)
    BY DEF BlockInv, Types, Goto, Same
  <1> QED BY <1>1, <1>3, <1>4, OneChild

(* Entering and leaving a block, one or two deep.                          *)
LEMMA EnterOuter ==
  ASSUME BlockInv, TelemetryAssumption, NEW c \in Child, NEW e \in Env, Enter(c, e),
         tokens[c] = << >>, ctx[c] = NoEnv
  PROVE  /\ ctx' = [ctx EXCEPT ![c] = e] /\ tokens' = [tokens EXCEPT ![c] = <<NoEnv>>]
         /\ ctx' \in [Child -> Env \cup {NoEnv}] /\ tokens' \in [Child -> Stack]
  <1>1. Append(tokens[c], ctx[c]) = <<NoEnv>>
    BY OneToken
  <1> QED BY <1>1 DEF BlockInv, Types, Enter, Stack

LEMMA EnterInner ==
  ASSUME BlockInv, TelemetryAssumption, NEW c \in Child, NEW e \in Env \cup {NoEnv},
         Enter(c, e), tokens[c] = <<NoEnv>>
  PROVE  /\ ctx' = [ctx EXCEPT ![c] = e] /\ tokens' = [tokens EXCEPT ![c] = <<NoEnv, ctx[c]>>]
         /\ ctx' \in [Child -> Env \cup {NoEnv}] /\ tokens' \in [Child -> Stack]
  <1>1. Append(tokens[c], ctx[c]) = <<NoEnv, ctx[c]>>
    BY TwoTokens
  <1>2. <<NoEnv, ctx[c]>> \in Stack
    BY DEF BlockInv, Types, Stack
  <1> QED BY <1>1, <1>2 DEF BlockInv, Types, Enter

LEMMA ExitOuter ==
  ASSUME BlockInv, NEW c \in Child, Exit(c), tokens[c] = <<NoEnv>>
  PROVE  /\ ctx' = [ctx EXCEPT ![c] = NoEnv] /\ tokens' = [tokens EXCEPT ![c] = << >>]
         /\ ctx' \in [Child -> Env \cup {NoEnv}] /\ tokens' \in [Child -> Stack]
  <1>1. Last(tokens[c]) = NoEnv /\ Front(tokens[c]) = << >>
    BY OneToken
  <1>2. << >> \in Stack
    BY DEF Stack
  <1> QED BY <1>1, <1>2 DEF BlockInv, Types, Exit

LEMMA ExitInner ==
  ASSUME BlockInv, NEW c \in Child, NEW b \in Env \cup {NoEnv}, Exit(c),
         tokens[c] = <<NoEnv, b>>
  PROVE  /\ ctx' = [ctx EXCEPT ![c] = b] /\ tokens' = [tokens EXCEPT ![c] = <<NoEnv>>]
         /\ ctx' \in [Child -> Env \cup {NoEnv}] /\ tokens' \in [Child -> Stack]
  <1>1. Last(tokens[c]) = b /\ Front(tokens[c]) = <<NoEnv>>
    BY TwoTokens
  <1>2. <<NoEnv>> \in Stack
    BY DEF Stack
  <1> QED BY <1>1, <1>2 DEF BlockInv, Types, Exit

-----------------------------------------------------------------------------
LEMMA StartStep ==
  ASSUME BlockInv, TelemetryAssumption, NEW c \in Child, NEW m \in Msg, Start(c, m)
  PROVE  BlockInv'
  <1>1. m.env \in Env /\ m # NoJob
    BY DEF TelemetryAssumption, Msg, ProvisionMsg, TeardownMsg
  <1>2. pc[c] = "idle" /\ Enter(c, m.env) /\ tokens[c] = << >> /\ ctx[c] = NoEnv
    BY DEF Start, BlockInv, Blocks
  <1>3. /\ ctx' = [ctx EXCEPT ![c] = m.env] /\ tokens' = [tokens EXCEPT ![c] = <<NoEnv>>]
        /\ ctx' \in [Child -> Env \cup {NoEnv}] /\ tokens' \in [Child -> Stack]
    BY <1>1, <1>2, EnterOuter
  <1>4. Types'
    BY <1>3 DEF Start, BlockInv, Types, Goto, InTask
  <1>5. Blocks(c)'
    BY <1>1, <1>2, <1>3 DEF Start, BlockInv, Types, Blocks, Goto, InTask, InSweep
  <1>6. \A d \in Child \ {c} : Same(d)
    BY <1>3 DEF Start, BlockInv, Types, Goto, Same
  <1> QED BY <1>4, <1>5, <1>6, OneChild

LEMMA WorkStep ==
  ASSUME BlockInv, TelemetryAssumption, NEW c \in Child, Work(c)
  PROVE  BlockInv'
  <1>1. /\ pc[c] = "work" /\ UNCHANGED <<job, about>> /\ tokens[c] = <<NoEnv>>
        /\ job[c] \in Msg /\ job[c].env \in Env /\ ctx[c] = job[c].env /\ about[c] = NoEnv
    BY DEF Work, BlockInv, Types, Blocks, InTask, Msg, ProvisionMsg, TeardownMsg
  <1>2. CASE \E l \in {"won", "except"} : Goto(c, l) /\ UNCHANGED logVars
    BY <1>1, <1>2, GoesOn DEF InTask, logVars
  <1>3. CASE Goto(c, "inner") /\ Enter(c, job[c].env)
    <2>1. /\ ctx' = [ctx EXCEPT ![c] = job[c].env]
          /\ tokens' = [tokens EXCEPT ![c] = <<NoEnv, ctx[c]>>]
          /\ ctx' \in [Child -> Env \cup {NoEnv}] /\ tokens' \in [Child -> Stack]
      BY <1>1, <1>3, EnterInner
    <2>2. Types'
      BY <1>1, <1>3, <2>1 DEF BlockInv, Types, Goto, InTask
    <2>3. Blocks(c)'
      BY <1>1, <1>3, <2>1 DEF BlockInv, Types, Blocks, Goto, InTask, InSweep
    <2>4. \A d \in Child \ {c} : Same(d)
      BY <1>1, <1>3, <2>1 DEF BlockInv, Types, Goto, Same
    <2> QED BY <2>2, <2>3, <2>4, OneChild
  <1> QED BY <1>2, <1>3 DEF Work

LEMMA RemovedStep ==
  ASSUME BlockInv, NEW c \in Child, Removed(c)
  PROVE  BlockInv'
  <1>1. PICK l \in {"won", "except"} : Goto(c, l)
    BY DEF Removed
  <1>2. /\ pc[c] = "inner" /\ UNCHANGED <<job, about>> /\ Exit(c)
        /\ job[c] \in Msg /\ job[c].env \in Env /\ about[c] = NoEnv
        /\ tokens[c] = <<NoEnv, job[c].env>>
    BY DEF Removed, BlockInv, Types, Blocks, InTask, Msg, ProvisionMsg, TeardownMsg
  <1>3. /\ ctx' = [ctx EXCEPT ![c] = job[c].env]
        /\ tokens' = [tokens EXCEPT ![c] = <<NoEnv>>]
        /\ ctx' \in [Child -> Env \cup {NoEnv}] /\ tokens' \in [Child -> Stack]
    BY <1>2, ExitInner
  <1>4. Types'
    BY <1>1, <1>2, <1>3 DEF BlockInv, Types, Goto, InTask
  <1>5. Blocks(c)'
    BY <1>1, <1>2, <1>3 DEF BlockInv, Types, Blocks, Goto, InTask, InSweep
  <1>6. \A d \in Child \ {c} : Same(d)
    BY <1>1, <1>2, <1>3 DEF BlockInv, Types, Goto, Same
  <1> QED BY <1>4, <1>5, <1>6, OneChild

LEMMA LeaveStep ==
  ASSUME BlockInv, NEW c \in Child, Leave(c)
  PROVE  BlockInv'
  <1>1. tokens[c] = <<NoEnv>> /\ Exit(c) /\ about[c] = NoEnv
    BY DEF Leave, BlockInv, Blocks, InTask
  <1>2. /\ ctx' = [ctx EXCEPT ![c] = NoEnv] /\ tokens' = [tokens EXCEPT ![c] = << >>]
        /\ ctx' \in [Child -> Env \cup {NoEnv}] /\ tokens' \in [Child -> Stack]
    BY <1>1, ExitOuter
  <1>3. Types'
    BY <1>2 DEF Leave, BlockInv, Types, Goto
  <1>4. Blocks(c)'
    BY <1>1, <1>2 DEF Leave, BlockInv, Types, Blocks, Goto, InTask, InSweep
  <1>5. \A d \in Child \ {c} : Same(d)
    BY <1>2 DEF Leave, BlockInv, Types, Goto, Same
  <1> QED BY <1>3, <1>4, <1>5, OneChild

LEMMA SweepNextStep ==
  ASSUME BlockInv, TelemetryAssumption, NEW c \in Child, SweepNext(c)
  PROVE  BlockInv'
  <1>1. UNCHANGED job
    BY DEF SweepNext
  <1>2. CASE /\ pc[c] \in {"idle", "sweep"} /\ UNCHANGED <<about, logVars>>
             /\ Goto(c, "sweep") \/ Goto(c, "idle")
    <2>1. Types'
      BY <1>1, <1>2 DEF logVars, BlockInv, Types, Goto, InSweep
    <2>2. Blocks(c)'
      BY <1>1, <1>2 DEF logVars, BlockInv, Types, Blocks, Goto, InTask, InSweep
    <2>3. \A d \in Child \ {c} : Same(d)
      BY <1>1, <1>2 DEF logVars, BlockInv, Types, Goto, Same
    <2> QED BY <2>1, <2>2, <2>3, OneChild
  <1>3. ASSUME NEW e \in Env, pc[c] = "sweep", Goto(c, "swept"), Enter(c, e),
               about' = [about EXCEPT ![c] = e]
        PROVE  BlockInv'
    <2>1. tokens[c] = << >> /\ ctx[c] = NoEnv
      BY <1>3 DEF BlockInv, Blocks
    <2>2. /\ ctx' = [ctx EXCEPT ![c] = e] /\ tokens' = [tokens EXCEPT ![c] = <<NoEnv>>]
          /\ ctx' \in [Child -> Env \cup {NoEnv}] /\ tokens' \in [Child -> Stack]
      BY <1>3, <2>1, EnterOuter
    <2>3. Types'
      BY <1>1, <1>3, <2>2 DEF BlockInv, Types, Goto, InSweep
    <2>4. Blocks(c)'
      BY <1>1, <1>3, <2>2 DEF BlockInv, Types, Blocks, Goto, InTask, InSweep
    <2>5. \A d \in Child \ {c} : Same(d)
      BY <1>1, <1>3, <2>2 DEF BlockInv, Types, Goto, Same
    <2> QED BY <2>3, <2>4, <2>5, OneChild
  <1> QED BY <1>2, <1>3 DEF SweepNext

LEMMA SweepOneStep ==
  ASSUME BlockInv, TelemetryAssumption, NEW c \in Child, SweepOne(c)
  PROVE  BlockInv'
  <1>1. UNCHANGED job /\ pc[c] \in InSweep \ {"sweep"}
    BY DEF SweepOne, InSweep
  <1>2. CASE pc[c] = "swept" /\ Goto(c, "purge") /\ Enter(c, about[c]) /\ UNCHANGED about
    <2>1. tokens[c] = <<NoEnv>> /\ ctx[c] = about[c] /\ about[c] \in Env \cup {NoEnv}
      BY <1>2 DEF BlockInv, Types, Blocks
    <2>2. /\ ctx' = [ctx EXCEPT ![c] = about[c]]
          /\ tokens' = [tokens EXCEPT ![c] = <<NoEnv, about[c]>>]
          /\ ctx' \in [Child -> Env \cup {NoEnv}] /\ tokens' \in [Child -> Stack]
      BY <1>2, <2>1, EnterInner
    <2>3. Types'
      BY <1>1, <1>2, <2>2 DEF BlockInv, Types, Goto, InSweep
    <2>4. Blocks(c)'
      BY <1>1, <1>2, <2>2 DEF BlockInv, Types, Blocks, Goto, InTask, InSweep
    <2>5. \A d \in Child \ {c} : Same(d)
      BY <1>1, <1>2, <2>2 DEF BlockInv, Types, Goto, Same
    <2> QED BY <2>3, <2>4, <2>5, OneChild
  <1>3. CASE pc[c] = "purge" /\ Goto(c, "swept") /\ Exit(c) /\ UNCHANGED about
    <2>1. tokens[c] = <<NoEnv, about[c]>> /\ about[c] \in Env \cup {NoEnv}
      BY <1>3 DEF BlockInv, Types, Blocks
    <2>2. /\ ctx' = [ctx EXCEPT ![c] = about[c]] /\ tokens' = [tokens EXCEPT ![c] = <<NoEnv>>]
          /\ ctx' \in [Child -> Env \cup {NoEnv}] /\ tokens' \in [Child -> Stack]
      BY <1>3, <2>1, ExitInner
    <2>3. Types'
      BY <1>1, <1>3, <2>2 DEF BlockInv, Types, Goto, InSweep
    <2>4. Blocks(c)'
      BY <1>1, <1>3, <2>2 DEF BlockInv, Types, Blocks, Goto, InTask, InSweep
    <2>5. \A d \in Child \ {c} : Same(d)
      BY <1>1, <1>3, <2>2 DEF BlockInv, Types, Goto, Same
    <2> QED BY <2>3, <2>4, <2>5, OneChild
  <1>4. CASE /\ pc[c] = "swept" \/ (pc[c] = "unwind" /\ tokens[c] = <<NoEnv>>)
             /\ Goto(c, "sweep") \/ Goto(c, "idle")
             /\ Exit(c) /\ about' = [about EXCEPT ![c] = NoEnv]
    <2>1. tokens[c] = <<NoEnv>>
      BY <1>4 DEF BlockInv, Blocks
    <2>2. /\ ctx' = [ctx EXCEPT ![c] = NoEnv] /\ tokens' = [tokens EXCEPT ![c] = << >>]
          /\ ctx' \in [Child -> Env \cup {NoEnv}] /\ tokens' \in [Child -> Stack]
      BY <1>4, <2>1, ExitOuter
    <2>3. Types'
      BY <1>1, <1>4, <2>2 DEF BlockInv, Types, Goto, InSweep
    <2>4. Blocks(c)'
      BY <1>1, <1>4, <2>2 DEF BlockInv, Types, Blocks, Goto, InTask, InSweep
    <2>5. \A d \in Child \ {c} : Same(d)
      BY <1>1, <1>4, <2>2 DEF BlockInv, Types, Goto, Same
    <2> QED BY <2>3, <2>4, <2>5, OneChild
  <1>5. CASE pc[c] \in {"swept", "purge"} /\ Goto(c, "unwind") /\ UNCHANGED <<about, logVars>>
    <2>1. Types'
      BY <1>1, <1>5 DEF logVars, BlockInv, Types, Goto, InSweep
    <2>2. Blocks(c)'
      BY <1>1, <1>5 DEF logVars, BlockInv, Types, Blocks, Goto, InTask, InSweep
    <2>3. \A d \in Child \ {c} : Same(d)
      BY <1>1, <1>5 DEF logVars, BlockInv, Types, Goto, Same
    <2> QED BY <2>1, <2>2, <2>3, OneChild
  <1>6. CASE /\ pc[c] = "unwind" /\ tokens[c] = <<NoEnv, about[c]>>
             /\ UNCHANGED <<pc, about>> /\ Exit(c)
    <2>1. about[c] \in Env \cup {NoEnv}
      BY DEF BlockInv, Types
    <2>2. /\ ctx' = [ctx EXCEPT ![c] = about[c]] /\ tokens' = [tokens EXCEPT ![c] = <<NoEnv>>]
          /\ ctx' \in [Child -> Env \cup {NoEnv}] /\ tokens' \in [Child -> Stack]
      BY <1>6, <2>1, ExitInner
    <2>3. Types'
      BY <1>1, <1>6, <2>2 DEF BlockInv, Types, Goto, InSweep
    <2>4. Blocks(c)'
      BY <1>1, <1>6, <2>2 DEF BlockInv, Types, Blocks, Goto, InTask, InSweep
    <2>5. \A d \in Child \ {c} : Same(d)
      BY <1>1, <1>6, <2>2 DEF BlockInv, Types, Goto, Same
    <2> QED BY <2>3, <2>4, <2>5, OneChild
  <1>7. ASSUME pc[c] = "unwind"
        PROVE  \/ tokens[c] = <<NoEnv>> /\ ~(Len(tokens[c]) > 1)
               \/ tokens[c] = <<NoEnv, about[c]>> /\ Len(tokens[c]) > 1
    <2>1. Len(<<NoEnv>>) = 1 /\ Len(<<NoEnv, about[c]>>) = 2
      BY OneToken, TwoTokens
    <2>2. tokens[c] = <<NoEnv>> \/ tokens[c] = <<NoEnv, about[c]>>
      BY <1>7 DEF BlockInv, Blocks
    <2>3. CASE tokens[c] = <<NoEnv>>
      <3>1. Len(tokens[c]) = 1
        BY <2>1, <2>3
      <3> QED BY <2>3, <3>1
    <2>4. CASE tokens[c] = <<NoEnv, about[c]>>
      <3>1. Len(tokens[c]) = 2
        BY <2>1, <2>4
      <3> QED BY <2>4, <3>1
    <2> QED BY <2>2, <2>3, <2>4
  <1> QED BY <1>2, <1>3, <1>4, <1>5, <1>6, <1>7 DEF SweepOne

LEMMA DieStep ==
  ASSUME BlockInv, TelemetryAssumption, NEW c \in Child, Die(c)
  PROVE  BlockInv'
  <1>1. << >> \in Stack /\ Process = Child
    BY DEF Stack, TelemetryAssumption
  <1>2. /\ Goto(c, "idle") /\ job' = [job EXCEPT ![c] = NoJob]
        /\ about' = [about EXCEPT ![c] = NoEnv] /\ Forget({c})
    BY DEF Die
  <1>3. Types'
    BY <1>1, <1>2 DEF BlockInv, Types, Goto, Forget
  <1>4. Blocks(c)'
    BY <1>1, <1>2 DEF BlockInv, Types, Blocks, Goto, Forget, InTask, InSweep
  <1>5. \A d \in Child \ {c} : Same(d)
    BY <1>1, <1>2 DEF BlockInv, Types, Goto, Forget, Same
  <1> QED BY <1>3, <1>4, <1>5, OneChild

(* Nothing of an earlier run is left in a pool that starts.                *)
LEMMA Fresh ==
  ASSUME TelemetryAssumption
  PROVE  /\ Init => BlockInv
         /\ Restart => BlockInv'
  <1>1. << >> \in Stack /\ Process = Child
    BY DEF Stack, TelemetryAssumption
  <1>2. ASSUME Init PROVE BlockInv
    BY <1>1, <1>2 DEF Init, LogInit, BlockInv, Types, Blocks, InTask, InSweep
  <1>3. ASSUME Restart PROVE BlockInv'
    <2>1. /\ pc' = [d \in Child |-> "idle"] /\ job' = [d \in Child |-> NoJob]
          /\ about' = [d \in Child |-> NoEnv] /\ ctx' = [d \in Child |-> NoEnv]
          /\ tokens' = [d \in Child |-> << >>]
      BY <1>1, <1>3 DEF Restart, Forget
    <2> QED BY <1>1, <2>1 DEF BlockInv, Types, Blocks, InTask, InSweep
  <1> QED BY <1>2, <1>3

LEMMA BlockStep == TelemetryAssumption /\ BlockInv /\ [Next]_vars => BlockInv'
  <1> SUFFICES ASSUME TelemetryAssumption, BlockInv, [Next]_vars PROVE BlockInv'
    OBVIOUS
  <1>1. CASE UNCHANGED <<pc, job, about, ctx, tokens>>
    BY <1>1 DEF BlockInv, Types, Blocks
  <1>2. CASE Restart
    BY <1>2, Fresh
  <1>3. ASSUME NEW c \in Child, \E m \in Msg : Start(c, m) PROVE BlockInv'
    BY <1>3, StartStep
  <1>4. ASSUME NEW c \in Child, Load(c) \/ CountSuccess(c) \/ CountFailure(c) \/ Retry(c)
        PROVE  BlockInv'
    <2>1. /\ pc[c] \in InTask \ {"inner"} /\ UNCHANGED <<job, about, ctx, tokens>>
          /\ \E l \in InTask \ {"inner"} : Goto(c, l)
      BY <1>4 DEF Load, CountSuccess, CountFailure, Retry, InTask, logVars
    <2> QED BY <2>1, GoesOn
  <1>5. ASSUME NEW c \in Child, Run(c) \/ Die(c) PROVE BlockInv'
    BY <1>4, <1>5, WorkStep, RemovedStep, LeaveStep, SweepNextStep, SweepOneStep, DieStep
       DEF Run
  <1>6. ASSUME NEW e \in Env, Send(e) PROVE BlockInv'
    BY <1>1, <1>6 DEF Send, logVars
  <1>7. CASE UNCHANGED vars
    BY <1>1, <1>7 DEF vars, logVars
  <1> QED BY <1>2, <1>3, <1>5, <1>6, <1>7 DEF Next

(* observability.py: every line of a process carries the id of what it     *)
(* works on, through retries, inner blocks, exceptions and kills.          *)
THEOREM LinesRight == Spec => []LinesTagged
  <1>1. Init => BlockInv
    BY TelemetryAssumption, Fresh
  <1>2. BlockInv /\ [Next]_vars => BlockInv'
    BY TelemetryAssumption, BlockStep
  <1>3. BlockInv => LinesTagged
    BY DEF BlockInv, Types, Blocks, LinesTagged, Subject, InTask, InSweep
  <1> QED BY <1>1, <1>2, <1>3, PTL DEF Spec

-----------------------------------------------------------------------------
(* What each file has of one series.                                       *)
Column(s) == [c \in Child |-> file[c][s]]

ScrapeInv ==
  /\ MetricsTypeOK
  /\ \A s \in Series : IsFiniteSet(Copies(Column(s), Child)) /\ Scrape(s) = counted[s]

LEMMA ColumnType ==
  ASSUME MetricsTypeOK, NEW s \in Series
  PROVE  /\ Column(s) \in [Child -> Nat] /\ kept[s] \in Nat
         /\ Scrape(s) = kept[s] + Total(Column(s), Child)
  BY DEF MetricsTypeOK, Column, Scrape

LEMMA IncScrape ==
  ASSUME ScrapeInv, NEW c \in Child, NEW t, Inc(c, t)
  PROVE  ScrapeInv'
  <1>1. MetricsTypeOK'
    <2>1. \A s \in Series : counted'[s] \in Nat
      BY DEF ScrapeInv, MetricsTypeOK, Inc
    <2>2. \A d \in Child : \A s \in Series : file'[d][s] \in Nat
      BY DEF ScrapeInv, MetricsTypeOK, Inc
    <2>3. /\ counted' \in [Series -> Nat] /\ kept' \in [Series -> Nat]
      BY <2>1 DEF ScrapeInv, MetricsTypeOK, Inc
    <2>4. file' \in [Child -> [Series -> Nat]]
      BY <2>2 DEF ScrapeInv, MetricsTypeOK, Inc
    <2> QED BY <2>3, <2>4 DEF MetricsTypeOK
  <1>2. ASSUME NEW s \in Series
        PROVE  IsFiniteSet(Copies(Column(s), Child))' /\ (Scrape(s) = counted[s])'
    <2> DEFINE n == IF s = t THEN 1 ELSE 0
    <2>1. /\ kept'[s] = kept[s] /\ counted'[s] = counted[s] + n
          /\ \A d \in Child \ {c} : Column(s)'[d] = Column(s)[d]
          /\ Column(s)'[c] = Column(s)[c] + n
      BY DEF ScrapeInv, MetricsTypeOK, Inc, Column
    <2>2. /\ Column(s) \in [Child -> Nat] /\ Column(s)' \in [Child -> Nat] /\ kept[s] \in Nat
          /\ Scrape(s) = kept[s] + Total(Column(s), Child)
          /\ Scrape(s)' = kept'[s] + Total(Column(s)', Child)
      BY <1>1, ColumnType DEF ScrapeInv, MetricsTypeOK, Column, Scrape
    <2>3. IsFiniteSet(Copies(Column(s), Child)) /\ Scrape(s) = counted[s]
      BY DEF ScrapeInv
    <2>4. \A d \in Child : Column(s)[d] \in Nat /\ Column(s)'[d] \in Nat
      BY <2>2
    <2>5. ChangedAt(Column(s), Column(s)', Child, c)
      <3>1. OnlyAt(Column(s), Column(s)', Child, c)
        BY <2>1, <2>4 DEF OnlyAt
      <3>2. IsFiniteSet(Copies(Column(s), Child))
        BY <2>3
      <3> QED BY <3>1, <3>2, TotalChange
    <2>6. Total(Column(s), Child) \in Nat
      BY <2>3, TotalType
    <2>7. Scrape(s)' = counted'[s]
      BY <2>1, <2>2, <2>3, <2>4, <2>5, <2>6 DEF ChangedAt
    <2> QED BY <2>5, <2>7 DEF ChangedAt
  <1> QED BY <1>1, <1>2 DEF ScrapeInv

LEMMA MarkDeadScrape ==
  ASSUME ScrapeInv, NEW c \in Child, MarkDead(c)
  PROVE  ScrapeInv'
  <1>1. MetricsTypeOK'
    BY DEF ScrapeInv, MetricsTypeOK, MarkDead, NoCounts
  <1>2. ASSUME NEW s \in Series
        PROVE  IsFiniteSet(Copies(Column(s), Child))' /\ (Scrape(s) = counted[s])'
    <2>1. /\ kept'[s] = kept[s] + Column(s)[c] /\ counted'[s] = counted[s]
          /\ \A d \in Child \ {c} : Column(s)'[d] = Column(s)[d]
          /\ Column(s)'[c] = 0
      BY DEF ScrapeInv, MetricsTypeOK, MarkDead, Column, NoCounts
    <2>2. /\ Column(s) \in [Child -> Nat] /\ Column(s)' \in [Child -> Nat] /\ kept[s] \in Nat
          /\ Scrape(s) = kept[s] + Total(Column(s), Child)
          /\ Scrape(s)' = kept'[s] + Total(Column(s)', Child)
      BY <1>1, ColumnType DEF ScrapeInv, MetricsTypeOK, Column, Scrape
    <2>3. IsFiniteSet(Copies(Column(s), Child)) /\ Scrape(s) = counted[s]
      BY DEF ScrapeInv
    <2>4. \A d \in Child : Column(s)[d] \in Nat /\ Column(s)'[d] \in Nat
      BY <2>2
    <2>5. ChangedAt(Column(s), Column(s)', Child, c)
      <3>1. OnlyAt(Column(s), Column(s)', Child, c)
        BY <2>1, <2>4 DEF OnlyAt
      <3>2. IsFiniteSet(Copies(Column(s), Child))
        BY <2>3
      <3> QED BY <3>1, <3>2, TotalChange
    <2>6. Total(Column(s), Child) \in Nat
      BY <2>3, TotalType
    <2>7. Scrape(s)' = counted'[s]
      BY <2>1, <2>2, <2>3, <2>4, <2>5, <2>6 DEF ChangedAt
    <2> QED BY <2>5, <2>7 DEF ChangedAt
  <1> QED BY <1>1, <1>2 DEF ScrapeInv

(* An empty directory.                                                     *)
LEMMA FreshScrape ==
  /\ MetricsInit => ScrapeInv
  /\ PrepareDir => ScrapeInv'
  <1>1. ASSUME MetricsInit PROVE ScrapeInv
    <2>1. MetricsTypeOK
      BY <1>1 DEF MetricsInit, MetricsTypeOK, NoCounts
    <2>2. ASSUME NEW s \in Series
          PROVE  IsFiniteSet(Copies(Column(s), Child)) /\ Scrape(s) = counted[s]
      <3>1. \A c \in Child : Column(s)[c] = 0
        BY <1>1 DEF MetricsInit, NoCounts, Column
      <3>2. IsFiniteSet(Copies(Column(s), Child)) /\ Total(Column(s), Child) = 0
        BY <3>1, TotalNone
      <3>3. Scrape(s) = kept[s] + Total(Column(s), Child)
        BY DEF Scrape, Column
      <3>4. kept[s] = 0 /\ counted[s] = 0
        BY <1>1 DEF MetricsInit, NoCounts
      <3> QED BY <3>2, <3>3, <3>4
    <2> QED BY <2>1, <2>2 DEF ScrapeInv
  <1>2. ASSUME PrepareDir PROVE ScrapeInv'
    <2>1. MetricsTypeOK'
      BY <1>2 DEF PrepareDir, MetricsTypeOK, NoCounts
    <2>2. ASSUME NEW s \in Series
          PROVE  IsFiniteSet(Copies(Column(s), Child))' /\ (Scrape(s) = counted[s])'
      <3>1. \A c \in Child : Column(s)'[c] = 0
        BY <1>2 DEF PrepareDir, NoCounts, Column
      <3>2. IsFiniteSet(Copies(Column(s)', Child)) /\ Total(Column(s)', Child) = 0
        BY <3>1, TotalNone
      <3>3. Scrape(s)' = kept'[s] + Total(Column(s)', Child)
        BY DEF Scrape, Column
      <3>4. kept'[s] = 0 /\ counted'[s] = 0
        BY <1>2 DEF PrepareDir, NoCounts
      <3> QED BY <3>2, <3>3, <3>4
    <2> QED BY <2>1, <2>2 DEF ScrapeInv
  <1> QED BY <1>1, <1>2

LEMMA ScrapeHolds == Spec => []ScrapeInv
  <1>1. Init => ScrapeInv
    BY FreshScrape DEF Init
  <1>2. ScrapeInv /\ [Next]_vars => ScrapeInv'
    <2> SUFFICES ASSUME ScrapeInv, [Next]_vars PROVE ScrapeInv'
      OBVIOUS
    <2>1. CASE UNCHANGED metricVars
      BY <2>1 DEF metricVars, ScrapeInv, MetricsTypeOK, Column, Scrape
    <2>2. CASE Restart
      BY <2>2, FreshScrape DEF Restart
    <2>3. ASSUME NEW c \in Child, Die(c) PROVE ScrapeInv'
      BY <2>3, MarkDeadScrape DEF Die
    <2>4. ASSUME NEW c \in Child, CountSuccess(c) \/ CountFailure(c) PROVE ScrapeInv'
      BY <2>4, IncScrape DEF CountSuccess, CountFailure
    <2>5. ASSUME NEW c \in Child, Run(c) PROVE ScrapeInv'
      BY <2>1, <2>4, <2>5 DEF Run, Load, Work, Removed, Retry, Leave, SweepNext, SweepOne
    <2>6. ASSUME NEW c \in Child, NEW m \in Msg, Start(c, m) PROVE ScrapeInv'
      BY <2>1, <2>6 DEF Start
    <2>7. ASSUME NEW e \in Env, Send(e) PROVE ScrapeInv'
      BY <2>1, <2>7 DEF Send
    <2>8. CASE UNCHANGED vars
      BY <2>1, <2>8 DEF vars
    <2> QED BY <2>2, <2>3, <2>5, <2>6, <2>7, <2>8 DEF Next
  <1> QED BY <1>1, <1>2, PTL DEF Spec

(* metrics.py:130 and :177: a scrape reports exactly what was counted      *)
(* since the worker started, whichever children are gone.                  *)
THEOREM ScrapesRight == Spec => []ScrapeFaithful
  <1>1. ScrapeInv => ScrapeFaithful
    BY DEF ScrapeInv, ScrapeFaithful
  <1> QED BY <1>1, ScrapeHolds, PTL

(* What the steps do to the counts themselves.                             *)
LEMMA CountsStep ==
  ASSUME ScrapeInv, [Next]_vars
  PROVE  \/ UNCHANGED <<file, kept>>
         \/ \A s \in Series : counted'[s] \in {counted[s], counted[s] + 1}
         \/ \A s \in Series : counted'[s] = 0
  <1> DEFINE Still == UNCHANGED <<file, kept>>
             Up == \A s \in Series : counted'[s] \in {counted[s], counted[s] + 1}
  <1>1. ASSUME NEW c \in Child, NEW t, Inc(c, t) PROVE Up
    BY <1>1 DEF Inc, ScrapeInv, MetricsTypeOK
  <1>2. CASE Restart
    BY <1>2 DEF Restart, PrepareDir, NoCounts
  <1>3. ASSUME NEW c \in Child, Die(c) PROVE Up
    BY <1>3 DEF Die, MarkDead
  <1>4. ASSUME NEW c \in Child, CountSuccess(c) \/ CountFailure(c) PROVE Up
    BY <1>1, <1>4 DEF CountSuccess, CountFailure
  <1>5. ASSUME NEW c \in Child, Run(c) PROVE Still \/ Up
    BY <1>4, <1>5 DEF Run, Load, Work, Removed, Retry, Leave, SweepNext, SweepOne, metricVars
  <1>6. ASSUME NEW c \in Child, NEW m \in Msg, Start(c, m) PROVE Still
    BY <1>6 DEF Start, metricVars
  <1>7. ASSUME NEW e \in Env, Send(e) PROVE Still
    BY <1>7 DEF Send, metricVars
  <1>8. CASE UNCHANGED vars
    BY <1>8 DEF vars, metricVars
  <1> QED BY <1>2, <1>3, <1>5, <1>6, <1>7, <1>8 DEF Next

(* metrics.py:132: rate() never reads a jump or a drop that was not a      *)
(* restart of the worker, for any number of children, kills and restarts.  *)
THEOREM ScrapesAreCounters == Spec => ScrapesCount
  <1> DEFINE Counts == \/ UNCHANGED <<file, kept>>
                       \/ \A s \in Series : Scrape(s)' \in {Scrape(s), Scrape(s) + 1}
                       \/ \A s \in Series : Scrape(s)' = 0
  <1>1. ASSUME ScrapeInv, ScrapeInv', [Next]_vars PROVE Counts
    <2>1. \A s \in Series : Scrape(s) = counted[s] /\ Scrape(s)' = counted'[s]
      BY <1>1 DEF ScrapeInv
    <2> QED BY <1>1, <2>1, CountsStep
  <1>2. ScrapesCount <=> [][Counts]_vars
    BY DEF ScrapesCount
  <1> HIDE DEF Counts
  <1>3. ScrapeInv /\ ScrapeInv' /\ [Next]_vars => Counts
    BY <1>1
  <1> QED BY <1>2, <1>3, ScrapeHolds, PTL DEF Spec

-----------------------------------------------------------------------------
(* The children that hold a message.                                       *)
Holding == {c \in Child : job[c] # NoJob}

VerdictInv ==
  /\ QueueTypeOK /\ sent \in Nat /\ verdicts \in Nat /\ dropped \in Nat /\ kills \in Nat
  /\ IsFiniteSet(Copies(queue, Msg)) /\ IsFiniteSet(Holding)
  /\ \A c \in Child : pc[c] = "retry" => ~Exhausted(job[c])
  /\ VerdictPerTask

LEMMA OpenTypes ==
  ASSUME VerdictInv, BlockInv
  PROVE  /\ Total(queue, Msg) \in Nat /\ IsFiniteSet(Deciding) /\ Cardinality(Deciding) \in Nat
         /\ Deciding \subseteq Holding
         /\ Cardinality(Deciding) <= Cardinality(Holding) /\ Cardinality(Holding) \in Nat
         /\ Open = Total(queue, Msg) + Cardinality(Deciding)
  <1>1. Deciding \subseteq Holding
    BY DEF BlockInv, Blocks, Deciding, Holding
  <1>2. /\ IsFiniteSet(Deciding) /\ Cardinality(Deciding) <= Cardinality(Holding)
        /\ Cardinality(Holding) \in Nat
    BY <1>1, FS_Subset, FS_CardinalityType DEF VerdictInv
  <1>3. Cardinality(Deciding) \in Nat
    BY <1>2, FS_CardinalityType
  <1>4. Total(queue, Msg) \in Nat
    BY TotalType DEF VerdictInv
  <1> QED BY <1>1, <1>2, <1>3, <1>4 DEF Open

LEMMA SendTotal ==
  ASSUME VerdictInv, NEW m \in Msg, Publish(m)
  PROVE  /\ QueueTypeOK' /\ IsFiniteSet(Copies(queue', Msg))
         /\ Total(queue', Msg) = Total(queue, Msg) + 1
  <1>1. queue' = [queue EXCEPT ![m] = queue[m] + 1] /\ queue \in [Msg -> Nat]
    BY DEF Publish, VerdictInv, QueueTypeOK
  <1>2. OnlyAt(queue, queue', Msg, m)
    BY <1>1 DEF OnlyAt
  <1>3. queue[m] \in Nat
    BY <1>1
  <1>4. queue'[m] = queue[m] + 1
    BY <1>1
  <1>5. QueueTypeOK'
    BY <1>1 DEF QueueTypeOK
  <1>6. IsFiniteSet(Copies(queue, Msg))
    BY DEF VerdictInv
  <1>7. Total(queue, Msg) \in Nat
    BY <1>6, TotalType
  <1>8. ChangedAt(queue, queue', Msg, m)
    BY <1>2, <1>6, TotalChange
  <1> QED BY <1>3, <1>4, <1>5, <1>7, <1>8 DEF ChangedAt

LEMMA TakeTotal ==
  ASSUME VerdictInv, NEW m \in Msg, Consume(m)
  PROVE  /\ QueueTypeOK' /\ IsFiniteSet(Copies(queue', Msg))
         /\ Total(queue', Msg) = Total(queue, Msg) - 1
  <1>1. /\ queue' = [queue EXCEPT ![m] = queue[m] - 1] /\ queue \in [Msg -> Nat]
        /\ queue[m] > 0
    BY DEF Consume, VerdictInv, QueueTypeOK
  <1>2. OnlyAt(queue, queue', Msg, m)
    BY <1>1 DEF OnlyAt
  <1>3. queue[m] \in Nat
    BY <1>1
  <1>4. queue'[m] = queue[m] - 1
    BY <1>1
  <1>5. QueueTypeOK'
    BY <1>1 DEF QueueTypeOK
  <1>6. IsFiniteSet(Copies(queue, Msg))
    BY DEF VerdictInv
  <1>7. Total(queue, Msg) \in Nat
    BY <1>6, TotalType
  <1>8. ChangedAt(queue, queue', Msg, m)
    BY <1>2, <1>6, TotalChange
  <1> QED BY <1>3, <1>4, <1>5, <1>7, <1>8 DEF ChangedAt

(* A child comes to its verdict, loses its task, or goes on.               *)
LEMMA DecidingLess ==
  ASSUME BlockInv, VerdictInv, NEW c \in Deciding, NEW l, l \notin InTask \ {"leave"},
         pc' = [pc EXCEPT ![c] = l]
  PROVE  Cardinality(Deciding') = Cardinality(Deciding) - 1
  <1>1. Deciding' = Deciding \ {c}
    BY DEF BlockInv, Types, Deciding
  <1>2. IsFiniteSet(Deciding)
    BY OpenTypes
  <1> QED BY <1>1, <1>2, FS_RemoveElement

LEMMA DecidingSame ==
  ASSUME BlockInv, NEW c \in Child, NEW l, pc' = [pc EXCEPT ![c] = l],
         l \in InTask \ {"leave"} <=> c \in Deciding
  PROVE  Deciding' = Deciding
  BY DEF BlockInv, Types, Deciding

LEMMA DecidingMore ==
  ASSUME BlockInv, VerdictInv, NEW c \in Child \ Deciding, NEW l \in InTask \ {"leave"},
         pc' = [pc EXCEPT ![c] = l]
  PROVE  Cardinality(Deciding') = Cardinality(Deciding) + 1
  <1>1. Deciding' = Deciding \cup {c}
    BY DEF BlockInv, Types, Deciding
  <1>2. IsFiniteSet(Deciding)
    BY OpenTypes
  <1> QED BY <1>1, <1>2, FS_AddElement

(* What is left to show of a step that concerns at most one child.         *)
LEMMA OneHolder ==
  ASSUME VerdictInv, NEW c \in Child,
         \A d \in Child \ {c} : pc'[d] = pc[d] /\ job'[d] = job[d],
         pc'[c] = "retry" => ~Exhausted(job'[c]),
         QueueTypeOK', IsFiniteSet(Copies(queue', Msg)),
         sent' \in Nat /\ verdicts' \in Nat /\ dropped' \in Nat /\ kills' \in Nat,
         VerdictPerTask'
  PROVE  VerdictInv'
  <1>1. Holding' \subseteq Holding \cup {c}
    BY DEF Holding
  <1>2. IsFiniteSet(Holding \cup {c})
    BY FS_AddElement DEF VerdictInv
  <1>3. IsFiniteSet(Holding')
    BY <1>1, <1>2, FS_Subset
  <1>4. \A d \in Child : pc'[d] = "retry" => ~Exhausted(job'[d])
    BY DEF VerdictInv
  <1>5. IsFiniteSet(Copies(queue, Msg))'
    OBVIOUS
  <1>6. (\A d \in Child : pc[d] = "retry" => ~Exhausted(job[d]))'
    BY <1>4 DEF Exhausted
  <1> QED BY <1>3, <1>5, <1>6 DEF VerdictInv

(* A task goes on, short of its end and of a retry.                        *)
LEMMA TaskGoesOn ==
  ASSUME BlockInv, VerdictInv, NEW c \in Deciding, NEW l \in InTask \ {"leave", "retry"},
         Goto(c, l), UNCHANGED <<job, queue, history>>
  PROVE  VerdictInv'
  <1>1. c \in Child /\ pc' = [pc EXCEPT ![c] = l]
    BY DEF Goto, Deciding
  <1>2. Deciding' = Deciding
    BY <1>1, DecidingSame
  <1>3. VerdictPerTask'
    BY <1>2 DEF VerdictInv, VerdictPerTask, Open, history
  <1>4. /\ pc'[c] # "retry"
        /\ \A d \in Child \ {c} : pc'[d] = pc[d] /\ job'[d] = job[d]
    BY <1>1 DEF BlockInv, Types
  <1>5. /\ QueueTypeOK' /\ IsFiniteSet(Copies(queue', Msg))
        /\ sent' \in Nat /\ verdicts' \in Nat /\ dropped' \in Nat /\ kills' \in Nat
    BY DEF VerdictInv, QueueTypeOK, history
  <1> QED BY <1>1, <1>3, <1>4, <1>5, OneHolder

(* A child that holds no message goes on with a sweep, or ends it.         *)
LEMMA SweepGoesOn ==
  ASSUME BlockInv, VerdictInv, NEW c \in Child, pc[c] \in {"idle"} \cup InSweep,
         \E l \in {"idle"} \cup InSweep : Goto(c, l), UNCHANGED <<job, queue, history>>
  PROVE  VerdictInv'
  <1>1. PICK l \in {"idle"} \cup InSweep : pc' = [pc EXCEPT ![c] = l]
    BY DEF Goto
  <1>2. l \notin InTask /\ l # "retry" /\ c \notin Deciding
    BY DEF InTask, InSweep, Deciding
  <1>3. Deciding' = Deciding
    BY <1>1, <1>2, DecidingSame
  <1>4. VerdictPerTask'
    BY <1>3 DEF VerdictInv, VerdictPerTask, Open, history
  <1>5. /\ pc'[c] # "retry"
        /\ \A d \in Child \ {c} : pc'[d] = pc[d] /\ job'[d] = job[d]
    BY <1>1, <1>2 DEF BlockInv, Types
  <1>6. /\ QueueTypeOK' /\ IsFiniteSet(Copies(queue', Msg))
        /\ sent' \in Nat /\ verdicts' \in Nat /\ dropped' \in Nat /\ kills' \in Nat
    BY DEF VerdictInv, QueueTypeOK, history
  <1> QED BY <1>4, <1>5, <1>6, OneHolder

(* The verdict, which may be that there will be another attempt.           *)
LEMMA SuccessVerdict ==
  ASSUME BlockInv, VerdictInv, NEW c \in Child, CountSuccess(c)
  PROVE  VerdictInv'
  <1>1. /\ c \in Deciding /\ "leave" \notin InTask \ {"leave"}
        /\ pc' = [pc EXCEPT ![c] = "leave"]
    BY DEF CountSuccess, Goto, Deciding, InTask
  <1>2. Cardinality(Deciding') = Cardinality(Deciding) - 1
    BY <1>1, DecidingLess
  <1>3. UNCHANGED <<job, queue, sent, dropped, kills>> /\ verdicts' = verdicts + 1
    BY DEF CountSuccess
  <1>4. VerdictPerTask'
    BY <1>2, <1>3, OpenTypes DEF VerdictInv, VerdictPerTask, Open
  <1>5. /\ pc'[c] # "retry"
        /\ \A d \in Child \ {c} : pc'[d] = pc[d] /\ job'[d] = job[d]
    BY <1>1, <1>3 DEF BlockInv, Types
  <1>6. /\ QueueTypeOK' /\ IsFiniteSet(Copies(queue', Msg))
        /\ sent' \in Nat /\ verdicts' \in Nat /\ dropped' \in Nat /\ kills' \in Nat
    BY <1>3 DEF VerdictInv, QueueTypeOK
  <1> QED BY <1>4, <1>5, <1>6, OneHolder

LEMMA FailureVerdict ==
  ASSUME BlockInv, VerdictInv, NEW c \in Child, CountFailure(c)
  PROVE  VerdictInv'
  <1>1. c \in Deciding /\ UNCHANGED <<job, queue, sent, dropped, kills>>
    BY DEF CountFailure, Deciding, InTask
  <1>2. /\ \A d \in Child \ {c} : pc'[d] = pc[d] /\ job'[d] = job[d]
        /\ pc'[c] = "retry" => ~Exhausted(job[c])
    BY <1>1 DEF CountFailure, Goto, BlockInv, Types
  <1>3. VerdictPerTask' /\ verdicts' \in Nat
    <2>1. CASE Retryable(c) /\ ~Exhausted(job[c])
      <3>1. pc' = [pc EXCEPT ![c] = "retry"] /\ verdicts' = verdicts
        BY <2>1 DEF CountFailure, Goto
      <3>2. "retry" \in InTask \ {"leave"}
        BY DEF InTask
      <3>3. Deciding' = Deciding
        BY <1>1, <3>1, <3>2, DecidingSame
      <3> QED BY <1>1, <3>1, <3>3 DEF VerdictInv, VerdictPerTask, Open
    <2>2. CASE ~(Retryable(c) /\ ~Exhausted(job[c]))
      <3>1. pc' = [pc EXCEPT ![c] = "leave"] /\ verdicts' = verdicts + 1
        BY <2>2 DEF CountFailure, Goto
      <3>2. Cardinality(Deciding') = Cardinality(Deciding) - 1
        BY <1>1, <3>1, DecidingLess
      <3> QED BY <1>1, <3>1, <3>2, OpenTypes DEF VerdictInv, VerdictPerTask, Open
    <2> QED BY <2>1, <2>2
  <1>4. /\ QueueTypeOK' /\ IsFiniteSet(Copies(queue', Msg))
        /\ sent' \in Nat /\ dropped' \in Nat /\ kills' \in Nat
    BY <1>1 DEF VerdictInv, QueueTypeOK
  <1> QED BY <1>1, <1>2, <1>3, <1>4, OneHolder

(* A message with retries left can be published once more.                 *)
LEMMA NextAttempt ==
  ASSUME BrokerAssumption, NEW m \in Msg, ~Exhausted(m)
  PROVE  [m EXCEPT !.retries = @ + 1] \in Msg
  <1>1. CASE m \in ProvisionMsg
    <2>1. m.task = "provision" /\ m.retries \in 0..ProvisionRetries
      BY <1>1 DEF ProvisionMsg
    <2>2. m.retries + 1 \in 0..ProvisionRetries
      BY <2>1 DEF Exhausted, BrokerAssumption
    <2> QED BY <1>1, <2>2 DEF Msg, ProvisionMsg
  <1>2. CASE m \in TeardownMsg
    <2>1. m.task = "teardown" /\ m.retries \in 0..TeardownRetries
      BY <1>2 DEF TeardownMsg
    <2>2. m.retries + 1 \in 0..TeardownRetries
      BY <2>1 DEF Exhausted, BrokerAssumption
    <2> QED BY <1>2, <2>2 DEF Msg, TeardownMsg
  <1> QED BY <1>1, <1>2 DEF Msg

LEMMA RetryVerdict ==
  ASSUME BrokerAssumption, BlockInv, VerdictInv, NEW c \in Child, Retry(c)
  PROVE  VerdictInv'
  <1>1. /\ c \in Deciding /\ UNCHANGED <<job, sent, verdicts, kills>>
        /\ pc' = [pc EXCEPT ![c] = "leave"] /\ ~Exhausted(job[c])
    BY DEF Retry, Goto, Deciding, InTask, VerdictInv
  <1>2. Cardinality(Deciding') = Cardinality(Deciding) - 1
    BY <1>1, DecidingLess
  <1>3. job[c] \in Msg
    BY <1>1 DEF BlockInv, Types, Blocks, Deciding
  <1>4. /\ QueueTypeOK' /\ IsFiniteSet(Copies(queue', Msg)) /\ dropped' \in Nat
        /\ VerdictPerTask'
    <2>1. CASE PublishRetry(job[c]) /\ dropped' = dropped
      <3>1. PICK m \in Msg : Publish(m)
        BY <1>1, <1>3, <2>1, NextAttempt DEF PublishRetry
      <3>2. /\ QueueTypeOK' /\ IsFiniteSet(Copies(queue', Msg))
            /\ Total(queue', Msg) = Total(queue, Msg) + 1
        BY <3>1, SendTotal
      <3>3. VerdictPerTask'
        BY <1>1, <1>2, <2>1, <3>2, OpenTypes DEF VerdictInv, VerdictPerTask, Open
      <3> QED BY <2>1, <3>2, <3>3 DEF VerdictInv
    <2>2. CASE dropped' = dropped + 1 /\ queue' = queue
      <3>1. VerdictPerTask'
        BY <1>1, <1>2, <2>2, OpenTypes DEF VerdictInv, VerdictPerTask, Open
      <3> QED BY <2>2, <3>1 DEF VerdictInv, QueueTypeOK
    <2> QED BY <2>1, <2>2 DEF Retry
  <1>5. /\ pc'[c] # "retry"
        /\ \A d \in Child \ {c} : pc'[d] = pc[d] /\ job'[d] = job[d]
    BY <1>1 DEF BlockInv, Types
  <1>6. sent' \in Nat /\ verdicts' \in Nat /\ kills' \in Nat
    BY <1>1 DEF VerdictInv
  <1> QED BY <1>4, <1>5, <1>6, OneHolder

LEMMA LeaveVerdict ==
  ASSUME BlockInv, VerdictInv, NEW c \in Child, Leave(c)
  PROVE  VerdictInv'
  <1>1. /\ c \notin Deciding /\ pc' = [pc EXCEPT ![c] = "idle"]
        /\ job' = [job EXCEPT ![c] = NoJob] /\ "idle" \notin InTask
        /\ UNCHANGED <<queue, history>>
    BY DEF Leave, Goto, Deciding, InTask
  <1>2. Deciding' = Deciding
    BY <1>1, DecidingSame
  <1>3. VerdictPerTask'
    BY <1>1, <1>2 DEF VerdictInv, VerdictPerTask, Open, history
  <1>4. /\ pc'[c] # "retry"
        /\ \A d \in Child \ {c} : pc'[d] = pc[d] /\ job'[d] = job[d]
    BY <1>1 DEF BlockInv, Types
  <1>5. /\ QueueTypeOK' /\ IsFiniteSet(Copies(queue', Msg))
        /\ sent' \in Nat /\ verdicts' \in Nat /\ dropped' \in Nat /\ kills' \in Nat
    BY <1>1 DEF VerdictInv, QueueTypeOK, history
  <1> QED BY <1>3, <1>4, <1>5, OneHolder

LEMMA RunVerdict ==
  ASSUME BrokerAssumption, BlockInv, VerdictInv, NEW c \in Child, Run(c)
  PROVE  VerdictInv'
  <1>1. CASE Load(c) \/ Work(c) \/ Removed(c)
    <2>1. /\ c \in Deciding /\ UNCHANGED <<job, queue, history>>
          /\ \E l \in InTask \ {"leave", "retry"} : Goto(c, l)
      BY <1>1 DEF Load, Work, Removed, Deciding, InTask
    <2> QED BY <2>1, TaskGoesOn
  <1>2. CASE SweepNext(c) \/ SweepOne(c)
    <2>1. pc[c] \in {"idle"} \cup InSweep /\ UNCHANGED <<job, queue, history>>
      BY <1>2 DEF SweepNext, SweepOne, InSweep
    <2>2. CASE \E l \in {"idle"} \cup InSweep : Goto(c, l)
      BY <2>1, <2>2, SweepGoesOn
    <2>3. CASE pc' = pc
      <3>1. Goto(c, pc[c])
        BY <2>3 DEF Goto, BlockInv, Types
      <3> QED BY <2>1, <3>1, SweepGoesOn
    <2> QED BY <1>2, <2>2, <2>3 DEF SweepNext, SweepOne, InSweep
  <1> QED BY <1>1, <1>2, SuccessVerdict, FailureVerdict, RetryVerdict, LeaveVerdict DEF Run

(* A task is sent, and taken.                                              *)
LEMMA SendVerdict ==
  ASSUME BrokerAssumption, BlockInv, VerdictInv, NEW e \in Env, Send(e)
  PROVE  VerdictInv'
  <1>1. PICK m \in Msg : Publish(m)
    BY DEF Send, Msg, ProvisionMsg, TeardownMsg, ProvisionCall, TeardownCall, BrokerAssumption
  <1>2. /\ QueueTypeOK' /\ IsFiniteSet(Copies(queue', Msg))
        /\ Total(queue', Msg) = Total(queue, Msg) + 1
    BY <1>1, SendTotal
  <1>3. sent' = sent + 1 /\ UNCHANGED <<pc, job, verdicts, dropped, kills>>
    BY DEF Send
  <1>4. Deciding' = Deciding /\ Holding' = Holding
    BY <1>3 DEF Deciding, Holding
  <1>5. VerdictPerTask'
    BY <1>2, <1>3, <1>4, OpenTypes DEF VerdictInv, VerdictPerTask, Open
  <1>6. (\A d \in Child : pc[d] = "retry" => ~Exhausted(job[d]))'
    BY <1>3 DEF VerdictInv, Exhausted
  <1>7. IsFiniteSet(Copies(queue, Msg))' /\ IsFiniteSet(Holding)'
    BY <1>2, <1>4 DEF VerdictInv
  <1> QED BY <1>2, <1>3, <1>5, <1>6, <1>7 DEF VerdictInv

LEMMA StartVerdict ==
  ASSUME BlockInv, VerdictInv, NEW c \in Child, NEW m \in Msg, Start(c, m)
  PROVE  VerdictInv'
  <1>1. /\ Consume(m) /\ pc' = [pc EXCEPT ![c] = "load"] /\ c \in Child \ Deciding
        /\ job' = [job EXCEPT ![c] = m] /\ UNCHANGED history
        /\ "load" \in InTask \ {"leave"}
    BY DEF Start, Goto, Deciding, InTask
  <1>2. /\ QueueTypeOK' /\ IsFiniteSet(Copies(queue', Msg))
        /\ Total(queue', Msg) = Total(queue, Msg) - 1
    BY <1>1, TakeTotal
  <1>3. Cardinality(Deciding') = Cardinality(Deciding) + 1
    BY <1>1, DecidingMore
  <1>4. VerdictPerTask'
    BY <1>1, <1>2, <1>3, OpenTypes DEF VerdictInv, VerdictPerTask, Open, history
  <1>5. /\ pc'[c] # "retry"
        /\ \A d \in Child \ {c} : pc'[d] = pc[d] /\ job'[d] = job[d]
    BY <1>1 DEF BlockInv, Types
  <1>6. sent' \in Nat /\ verdicts' \in Nat /\ dropped' \in Nat /\ kills' \in Nat
    BY <1>1 DEF VerdictInv, history
  <1> QED BY <1>2, <1>4, <1>5, <1>6, OneHolder

(* A kill may take one verdict away or add one.                            *)
LEMMA DieVerdict ==
  ASSUME BlockInv, VerdictInv, NEW c \in Child, Die(c)
  PROVE  VerdictInv'
  <1>1. /\ pc' = [pc EXCEPT ![c] = "idle"] /\ job' = [job EXCEPT ![c] = NoJob]
        /\ "idle" \notin InTask /\ UNCHANGED <<sent, verdicts, dropped>>
    BY DEF Die, Goto, InTask
  <1>2. /\ Cardinality(Deciding') \in {Cardinality(Deciding), Cardinality(Deciding) - 1}
        /\ c \notin Deciding => Cardinality(Deciding') = Cardinality(Deciding)
    BY <1>1, DecidingLess, DecidingSame
  <1>3. /\ QueueTypeOK' /\ IsFiniteSet(Copies(queue', Msg)) /\ kills' \in Nat
        /\ VerdictPerTask'
    <2>1. CASE pc[c] = "idle"
      <3>1. queue' = queue /\ kills' = kills /\ c \notin Deciding
        BY <2>1 DEF Die, BlockInv, Blocks, Deciding, InTask
      <3>2. VerdictPerTask'
        BY <1>1, <1>2, <3>1 DEF VerdictInv, VerdictPerTask, Open
      <3> QED BY <3>1, <3>2 DEF VerdictInv, QueueTypeOK
    <2>2. CASE pc[c] # "idle" /\ job[c] # NoJob /\ Publish(job[c])
      <3>1. job[c] \in Msg /\ kills' = kills + 1
        BY <2>2 DEF Die, BlockInv, Types
      <3>2. /\ QueueTypeOK' /\ IsFiniteSet(Copies(queue', Msg))
            /\ Total(queue', Msg) = Total(queue, Msg) + 1
        BY <2>2, <3>1, SendTotal
      <3>3. VerdictPerTask'
        BY <1>1, <1>2, <3>1, <3>2, OpenTypes DEF VerdictInv, VerdictPerTask, Open
      <3> QED BY <3>1, <3>2, <3>3 DEF VerdictInv
    <2>3. CASE pc[c] # "idle" /\ queue' = queue
      <3>1. kills' = kills + 1
        BY <2>3 DEF Die
      <3>2. VerdictPerTask'
        BY <1>1, <1>2, <2>3, <3>1, OpenTypes DEF VerdictInv, VerdictPerTask, Open
      <3> QED BY <2>3, <3>1, <3>2 DEF VerdictInv, QueueTypeOK
    <2> QED BY <2>1, <2>2, <2>3 DEF Die
  <1>4. /\ pc'[c] # "retry"
        /\ \A d \in Child \ {c} : pc'[d] = pc[d] /\ job'[d] = job[d]
    BY <1>1 DEF BlockInv, Types
  <1>5. sent' \in Nat /\ verdicts' \in Nat /\ dropped' \in Nat
    BY <1>1 DEF VerdictInv
  <1> QED BY <1>3, <1>4, <1>5, OneHolder

(* All that is held goes back to the queue.                                *)
LEMMA RestartVerdict ==
  ASSUME BlockInv, VerdictInv, Restart
  PROVE  VerdictInv'
  <1> DEFINE back == [m \in Msg |-> Cardinality({c \in Holding : job[c] = m})]
             n    == Cardinality(Holding)
  <1>1. n \in Nat /\ Cardinality(Deciding) <= n
    BY OpenTypes
  <1>2. IsFiniteSet(Copies(back, Msg)) /\ Total(back, Msg) = n
    <2>1. IsFiniteSet(Holding) /\ \A c \in Holding : job[c] \in Msg
      BY DEF VerdictInv, BlockInv, Types, Holding
    <2>2. SentTo(back, job, Holding, Msg)
      BY <2>1 DEF SentTo
    <2> HIDE DEF back
    <2> QED BY <2>1, <2>2, TotalPreimages
  <1>3. \A m \in Msg : back[m] \in Nat
    <2>1. ASSUME NEW m \in Msg PROVE IsFiniteSet({c \in Holding : job[c] = m})
      BY FS_Subset DEF VerdictInv
    <2> QED BY <2>1, FS_CardinalityType
  <1>4. /\ queue' = [m \in Msg |-> queue[m] + back[m]]
        /\ pc' = [c \in Child |-> "idle"] /\ job' = [c \in Child |-> NoJob]
        /\ kills' = kills + n /\ UNCHANGED <<sent, verdicts, dropped>>
    BY DEF Restart, Holding
  <1>5. QueueTypeOK'
    BY <1>3, <1>4 DEF VerdictInv, QueueTypeOK
  <1> HIDE DEF back
  <1>6. IsFiniteSet(Copies(queue', Msg)) /\ Total(queue', Msg) = Total(queue, Msg) + n
    <2>1. \A m \in Msg : queue[m] \in Nat /\ back[m] \in Nat /\ queue'[m] = queue[m] + back[m]
      BY <1>3, <1>4 DEF VerdictInv, QueueTypeOK
    <2>2. IsFiniteSet(Copies(queue, Msg))
      BY DEF VerdictInv
    <2>3. /\ IsFiniteSet(Copies(queue', Msg))
          /\ Total(queue', Msg) = Total(queue, Msg) + Total(back, Msg)
      BY <1>2, <2>1, <2>2, TotalAdd
    <2> QED BY <1>2, <2>3
  <1>7. Deciding' = {} /\ Holding' = {}
    BY <1>4 DEF Deciding, Holding, InTask
  <1>8. Cardinality(Deciding') = 0 /\ IsFiniteSet(Holding')
    BY <1>7, FS_EmptySet
  <1> HIDE DEF n
  <1>9. VerdictPerTask'
    BY <1>1, <1>4, <1>6, <1>8, OpenTypes DEF VerdictInv, VerdictPerTask, Open
  <1>10. (\A c \in Child : pc[c] = "retry" => ~Exhausted(job[c]))'
    BY <1>4
  <1>11. IsFiniteSet(Copies(queue, Msg))' /\ IsFiniteSet(Holding)'
    BY <1>6, <1>8
  <1>12. sent' \in Nat /\ verdicts' \in Nat /\ dropped' \in Nat /\ kills' \in Nat
    BY <1>1, <1>4 DEF VerdictInv
  <1> QED BY <1>5, <1>9, <1>10, <1>11, <1>12 DEF VerdictInv

LEMMA VerdictInit == Init => VerdictInv
  <1> SUFFICES ASSUME Init PROVE VerdictInv
    OBVIOUS
  <1>1. \A m \in Msg : queue[m] = 0
    BY DEF Init, QueueInit
  <1>2. IsFiniteSet(Copies(queue, Msg)) /\ Total(queue, Msg) = 0
    BY <1>1, TotalNone
  <1>3. Deciding = {} /\ Holding = {}
    BY DEF Init, Deciding, Holding, InTask
  <1>4. Cardinality(Deciding) = 0 /\ IsFiniteSet(Holding)
    BY <1>3, FS_EmptySet
  <1>5. QueueTypeOK /\ \A c \in Child : pc[c] # "retry"
    BY DEF Init, QueueInit, QueueTypeOK
  <1>6. sent = 0 /\ verdicts = 0 /\ dropped = 0 /\ kills = 0
    BY DEF Init
  <1>7. VerdictPerTask
    BY <1>2, <1>4, <1>6 DEF VerdictPerTask, Open
  <1> QED BY <1>2, <1>4, <1>5, <1>6, <1>7 DEF VerdictInv

LEMMA VerdictHolds == Spec => [](BlockInv /\ VerdictInv)
  <1>1. Init => BlockInv /\ VerdictInv
    BY TelemetryAssumption, Fresh, VerdictInit
  <1>2. BlockInv /\ VerdictInv /\ [Next]_vars => (BlockInv /\ VerdictInv)'
    <2> SUFFICES ASSUME BlockInv, VerdictInv, [Next]_vars PROVE VerdictInv'
      BY TelemetryAssumption, BlockStep
    <2>1. CASE Restart
      BY <2>1, RestartVerdict
    <2>2. ASSUME NEW e \in Env, Send(e) PROVE VerdictInv'
      BY <2>2, BrokerAssumption, SendVerdict
    <2>3. ASSUME NEW c \in Child, Run(c) \/ Die(c) \/ \E m \in Msg : Start(c, m)
          PROVE  VerdictInv'
      BY <2>3, BrokerAssumption, RunVerdict, DieVerdict, StartVerdict
    <2>4. CASE UNCHANGED vars
      <3>1. UNCHANGED <<pc, job, queue, sent, verdicts, dropped, kills>>
        BY <2>4 DEF vars, history
      <3>2. Deciding' = Deciding /\ Holding' = Holding
        BY <3>1 DEF Deciding, Holding
      <3>3. VerdictPerTask'
        BY <3>1, <3>2 DEF VerdictInv, VerdictPerTask, Open
      <3>4. (\A c \in Child : pc[c] = "retry" => ~Exhausted(job[c]))'
        BY <3>1 DEF VerdictInv
      <3>5. IsFiniteSet(Copies(queue, Msg))' /\ IsFiniteSet(Holding)' /\ QueueTypeOK'
        BY <3>1, <3>2 DEF VerdictInv, QueueTypeOK
      <3> QED BY <3>1, <3>3, <3>4, <3>5 DEF VerdictInv
    <2> QED BY <2>1, <2>2, <2>3, <2>4 DEF Next
  <1> QED BY <1>1, <1>2, PTL DEF Spec

(* worker/tasks.py counts as many verdicts as tasks were sent, but for the *)
(* retries that are lost and the processes killed with a message.          *)
THEOREM VerdictsRight == Spec => []VerdictPerTask
  <1>1. VerdictInv => VerdictPerTask
    BY DEF VerdictInv
  <1> QED BY <1>1, VerdictHolds, PTL

-----------------------------------------------------------------------------
(* What an attempt keeps for its count.                                    *)
AttemptTypes ==
  /\ template \in [Env -> Templates]
  /\ label \in [Child -> Templates \cup {"unknown"}]
  /\ valueError \in [Child -> BOOLEAN]

LEMMA AttemptStep ==
  ASSUME AttemptTypes, BlockInv, NoJob \notin Msg, [Next]_vars
  PROVE  AttemptTypes'
  <1>1. CASE UNCHANGED <<template, attemptVars>>
    BY <1>1 DEF AttemptTypes, attemptVars
  <1>2. ASSUME NEW c \in Child, NEW m \in Msg, Start(c, m) PROVE AttemptTypes'
    BY <1>2 DEF Start, AttemptTypes
  <1>3. ASSUME NEW c \in Child, Load(c) PROVE AttemptTypes'
    <2>1. job[c] \in Msg
      BY <1>3 DEF Load, BlockInv, Types, Blocks, InTask
    <2>2. job[c].env \in Env
      BY <2>1 DEF Msg, ProvisionMsg, TeardownMsg
    <2> QED BY <1>3, <2>2 DEF Load, AttemptTypes
  <1>4. ASSUME NEW c \in Child, Work(c) PROVE AttemptTypes'
    BY <1>4 DEF Work, AttemptTypes
  <1>5. ASSUME NEW c \in Child, Run(c) PROVE AttemptTypes'
    BY <1>1, <1>3, <1>4, <1>5 DEF Run, Removed, CountSuccess, CountFailure, Retry, Leave,
       SweepNext, SweepOne
  <1>6. ASSUME NEW c \in Child, Die(c) PROVE AttemptTypes'
    BY <1>1, <1>6 DEF Die
  <1>7. CASE Restart
    BY <1>1, <1>7 DEF Restart
  <1>8. ASSUME NEW e \in Env, Send(e) PROVE AttemptTypes'
    BY <1>1, <1>8 DEF Send
  <1>9. CASE UNCHANGED vars
    BY <1>1, <1>9 DEF vars
  <1> QED BY <1>2, <1>5, <1>6, <1>7, <1>8, <1>9 DEF Next

(* No child is ever more than two blocks deep.                             *)
LEMMA StackType ==
  ASSUME NEW t \in Stack
  PROVE  t \in Seq(Env \cup {NoEnv}) /\ Len(t) <= 2
  <1>1. CASE t = << >>
    BY <1>1
  <1>2. ASSUME NEW a \in Env \cup {NoEnv}, t = <<a>>
        PROVE  t \in Seq(Env \cup {NoEnv}) /\ Len(t) <= 2
    BY <1>2
  <1>3. ASSUME NEW a \in Env \cup {NoEnv}, NEW b \in Env \cup {NoEnv}, t = <<a, b>>
        PROVE  t \in Seq(Env \cup {NoEnv}) /\ Len(t) <= 2
    BY <1>3
  <1> QED BY <1>1, <1>2, <1>3 DEF Stack

(* Every variable keeps its type: a child holds a message exactly while it *)
(* runs a task, and is never more than two bind_env_id blocks deep.        *)
THEOREM TypeCorrect == Spec => []TypeOK
  <1>1. Init => AttemptTypes
    BY DEF Init, AttemptTypes
  <1>2. BlockInv /\ AttemptTypes /\ [Next]_vars => AttemptTypes'
    BY AttemptStep, TelemetryAssumption
  <1>3. BlockInv /\ VerdictInv /\ ScrapeInv /\ AttemptTypes => TypeOK
    <2> SUFFICES ASSUME BlockInv, VerdictInv, ScrapeInv, AttemptTypes PROVE TypeOK
      OBVIOUS
    <2>1. LogTypeOK
      <3>1. \A c \in Child : tokens[c] \in Seq(Env \cup {NoEnv}) /\ Len(tokens[c]) <= 2
        BY StackType DEF BlockInv, Types
      <3> QED BY <3>1, TelemetryAssumption DEF LogTypeOK, BlockInv, Types
    <2>2. \A c \in Child : (pc[c] \in InTask) <=> (job[c] # NoJob)
      BY DEF BlockInv, Types, Blocks, InTask, InSweep
    <2> QED BY <2>1, <2>2 DEF TypeOK, BlockInv, Types, VerdictInv, ScrapeInv, AttemptTypes
  <1> QED BY <1>1, <1>2, <1>3, VerdictHolds, ScrapeHolds, PTL DEF Spec
=============================================================================
