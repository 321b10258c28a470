--------------------------- MODULE ModelCommand ----------------------------
(***************************************************************************)
(* An external program run as the model: CommandModel of                   *)
(* irodori-generate/src/command.rs, both its complete (one answer) and its *)
(* chat (streamed answer).                                                 *)
(*                                                                         *)
(* The parent spawns a child, writes the prompt to its stdin, reads what   *)
(* it prints and waits for it.  The two run concurrently and are coupled   *)
(* by three pipes of bounded size: a write to a full pipe and a read from  *)
(* an empty one block.  The order in which the parent serves its pipes is  *)
(* the subject of the module.                                              *)
(*                                                                         *)
(* The child is any program: it commits to one operation at a time and     *)
(* stays in it until the operation can be done.  Text is counted in units  *)
(* (a line, a block of the prompt), since no property is about its words.  *)
(***************************************************************************)
EXTENDS Integers

CONSTANTS
  PipeCap,        \* units a pipe holds
  Prompt,         \* units of the prompt
  MaxOut,         \* units the child may print (bounds the model)
  MaxErr          \* units the child may print to stderr (bounds the model)

ASSUME ModelCommandAssumption ==
  /\ PipeCap \in Nat \ {0}
  /\ Prompt \in Nat \ {0}
  /\ MaxOut \in Nat
  /\ MaxErr \in Nat

VARIABLES
  mode,           \* "complete" or "chat"
  pc,             \* the call the parent is in
  result,         \* what the parent returned, or "none"
  unwritten,      \* units of the prompt not yet written to stdin
  text,           \* units of stdout the parent has read (chat: given to on_token)
  errText,        \* units of stderr the parent has read
  inPipe,         \* units in the stdin pipe
  inOpen,         \* the parent holds the write end of stdin
  outPipe,        \* units in the stdout pipe
  errPipe,        \* units in the stderr pipe
  child,          \* the operation the child is in, "exited" included
  code,           \* its exit code
  inClosed,       \* the child has closed its stdin
  outClosed,      \* the child has closed its stdout
  sawEof,         \* the child has read its stdin to the end
  readsFirst,     \* the child is one that reads its prompt before it answers
  childOut,       \* units the child has written to stdout
  childErr        \* units the child has written to stderr

parentVars == <<pc, result, unwritten, text, errText, inOpen>>
childVars  == <<child, code, inClosed, outClosed, sawEof, childOut, childErr>>
vars       == <<mode, readsFirst, parentVars, childVars, inPipe, outPipe, errPipe>>

Exited == child = "exited"

\* A {prompt} placeholder among the arguments leaves the child's stdin alone.
Init ==
  /\ mode \in {"complete", "chat"}
  /\ readsFirst \in BOOLEAN
  /\ pc = "spawn"
  /\ result = "none"
  /\ unwritten \in {0, Prompt}
  /\ inOpen = FALSE
  /\ text = 0 /\ errText = 0
  /\ inPipe = 0 /\ outPipe = 0 /\ errPipe = 0
  /\ child = "unborn"
  /\ code = 0
  /\ inClosed = FALSE /\ outClosed = FALSE
  /\ sawEof \in BOOLEAN /\ (sawEof <=> unwritten = 0)
  /\ childOut = 0 /\ childErr = 0

UsesStdin == unwritten > 0
-----------------------------------------------------------------------------
(* The parent. *)

\* Where the parent goes once the prompt is written.
AfterPrompt == IF mode = "chat" THEN "readStdout" ELSE "drain"

Return(r) ==
  /\ result' = r
  /\ pc' = "done"
  /\ inOpen' = FALSE

Spawn ==
  /\ pc = "spawn"
  /\ pc' = IF UsesStdin THEN "writeStdin" ELSE AfterPrompt
  /\ inOpen' = UsesStdin
  /\ child' = "choose"
  /\ UNCHANGED <<mode, readsFirst, result, unwritten, text, errText, code, inClosed, outClosed,
                 sawEof, childOut, childErr, inPipe, outPipe, errPipe>>

SpawnFails ==
  /\ pc = "spawn"
  /\ Return("notStarted")
  /\ UNCHANGED <<mode, readsFirst, unwritten, text, errText, childVars, inPipe, outPipe, errPipe>>

\* write_all: blocks while the pipe is full.
WritePrompt ==
  /\ pc = "writeStdin"
  /\ unwritten > 0
  /\ ~inClosed
  /\ inPipe < PipeCap
  /\ inPipe' = inPipe + 1
  /\ unwritten' = unwritten - 1
  /\ UNCHANGED <<mode, readsFirst, pc, result, text, errText, inOpen, childVars, outPipe, errPipe>>

\* The child is gone, or reads no more: EPIPE.
PromptRefused ==
  /\ pc = "writeStdin"
  /\ unwritten > 0
  /\ inClosed
  /\ Return("stdinError")
  /\ UNCHANGED <<mode, readsFirst, unwritten, text, errText, childVars, inPipe, outPipe, errPipe>>

\* Slip: stdin stays open.
KeepStdin ==
  /\ pc = "writeStdin"
  /\ unwritten = 0
  /\ pc' = AfterPrompt
  /\ UNCHANGED <<mode, readsFirst, inOpen, result, unwritten, text, errText, childVars, inPipe,
                 outPipe, errPipe>>

\* The handle taken from the child is dropped: end of file for its reader.
CloseStdin ==
  /\ pc = "writeStdin"
  /\ unwritten = 0
  /\ inOpen' = FALSE
  /\ pc' = AfterPrompt
  /\ UNCHANGED <<mode, readsFirst, result, unwritten, text, errText, childVars, inPipe, outPipe,
                 errPipe>>

\* Slip: nothing to read is taken for the end.
OutEofTooSoon == outPipe = 0

\* The reader of stdout sees its end: empty, and nobody left to write to it.
OutEof == outPipe = 0 /\ outClosed
ErrEof == errPipe = 0 /\ Exited

TakeOut ==
  /\ outPipe > 0
  /\ outPipe' = outPipe - 1
  /\ text' = text + 1

\* Slip: what was read stays in the pipe.
PeekErr ==
  /\ errPipe > 0
  /\ errPipe' = errPipe
  /\ errText' = errText + 1

TakeErr ==
  /\ errPipe > 0
  /\ errPipe' = errPipe - 1
  /\ errText' = errText + 1

\* chat: read_line and on_token, until end of file.
ReadLine ==
  /\ pc = "readStdout"
  /\ TakeOut
  /\ UNCHANGED <<mode, readsFirst, pc, result, unwritten, errText, inOpen, childVars, inPipe, errPipe>>

\* chat: the line is not UTF-8.
BadLine ==
  /\ pc = "readStdout"
  /\ outPipe > 0
  /\ Return("readError")
  /\ UNCHANGED <<mode, readsFirst, unwritten, text, errText, childVars, inPipe, outPipe, errPipe>>

StdoutEnds ==
  /\ pc = "readStdout"
  /\ OutEof
  /\ pc' = "wait"
  /\ UNCHANGED <<mode, readsFirst, result, unwritten, text, errText, inOpen, childVars, inPipe,
                 outPipe, errPipe>>

\* Slip: stderr is not looked at before stdout has ended.
DrainInTurn ==
  /\ pc = "drain"
  /\ \/ TakeOut /\ UNCHANGED <<errPipe, errText>>
     \/ OutEof /\ TakeErr /\ UNCHANGED <<outPipe, text>>
  /\ UNCHANGED <<mode, readsFirst, pc, result, unwritten, inOpen, childVars, inPipe>>

\* complete: wait_with_output reads whichever of the two pipes has something ...
Drain ==
  /\ pc = "drain"
  /\ \/ TakeOut /\ UNCHANGED <<errPipe, errText>>
     \/ TakeErr /\ UNCHANGED <<outPipe, text>>
  /\ UNCHANGED <<mode, readsFirst, pc, result, unwritten, inOpen, childVars, inPipe>>

\* ... until both are at their end.
Drained ==
  /\ pc = "drain"
  /\ OutEof /\ ErrEof
  /\ pc' = "wait"
  /\ UNCHANGED <<mode, readsFirst, result, unwritten, text, errText, inOpen, childVars, inPipe,
                 outPipe, errPipe>>

\* wait, and on a non-zero status the stderr that is still in its pipe (chat): all of
\* it, or nothing when it is not UTF-8, for the error of reading it is dropped.
Wait ==
  /\ pc = "wait"
  /\ Exited
  /\ IF code = 0
       THEN /\ Return("ok")
            /\ UNCHANGED <<errText, errPipe>>
       ELSE /\ Return("childError")
            /\ \/ errText' = errText + errPipe
               \/ mode = "chat" /\ errText' = errText
            /\ errPipe' = 0
  /\ UNCHANGED <<mode, readsFirst, unwritten, text, childVars, inPipe, outPipe>>

Parent ==
  \/ Spawn \/ SpawnFails
  \/ WritePrompt \/ PromptRefused \/ CloseStdin
  \/ ReadLine \/ BadLine \/ StdoutEnds
  \/ Drain \/ Drained
  \/ Wait
-----------------------------------------------------------------------------
(* The child. *)

\* The parent has dropped its ends of the output pipes.
Abandoned == pc = "done"

\* A child that reads first neither answers nor exits before the end of its prompt.
MayAnswer == readsFirst => sawEof

Choose ==
  /\ child = "choose"
  /\ child' \in (IF sawEof \/ inClosed THEN {} ELSE {"readIn"})
             \cup (IF MayAnswer /\ childOut < MaxOut /\ ~outClosed THEN {"writeOut"} ELSE {})
             \cup (IF MayAnswer /\ childErr < MaxErr THEN {"writeErr"} ELSE {})
  /\ UNCHANGED <<mode, readsFirst, parentVars, code, inClosed, outClosed, sawEof, childOut, childErr,
                 inPipe, outPipe, errPipe>>

\* Blocks while the pipe is empty and the parent holds its write end.
ReadIn ==
  /\ child = "readIn"
  /\ \/ inPipe > 0 /\ inPipe' = inPipe - 1 /\ UNCHANGED sawEof
     \/ inPipe = 0 /\ ~inOpen /\ sawEof' = TRUE /\ UNCHANGED inPipe
  /\ child' = "choose"
  /\ UNCHANGED <<mode, readsFirst, parentVars, code, inClosed, outClosed, childOut, childErr,
                 outPipe, errPipe>>

WriteOut ==
  /\ child = "writeOut"
  /\ ~Abandoned
  /\ outPipe < PipeCap
  /\ outPipe' = outPipe + 1
  /\ childOut' = childOut + 1
  /\ child' = "choose"
  /\ UNCHANGED <<mode, readsFirst, parentVars, code, inClosed, outClosed, sawEof, childErr, inPipe,
                 errPipe>>

WriteErr ==
  /\ child = "writeErr"
  /\ ~Abandoned
  /\ errPipe < PipeCap
  /\ errPipe' = errPipe + 1
  /\ childErr' = childErr + 1
  /\ child' = "choose"
  /\ UNCHANGED <<mode, readsFirst, parentVars, code, inClosed, outClosed, sawEof, childOut, inPipe,
                 outPipe>>

\* The child closes one of its streams and goes on.
CloseIn ==
  /\ child = "choose"
  /\ MayAnswer /\ ~inClosed
  /\ inClosed' = TRUE
  /\ UNCHANGED <<mode, readsFirst, parentVars, child, code, outClosed, sawEof, childOut, childErr,
                 inPipe, outPipe, errPipe>>

CloseOut ==
  /\ child = "choose"
  /\ MayAnswer /\ ~outClosed
  /\ outClosed' = TRUE
  /\ UNCHANGED <<mode, readsFirst, parentVars, child, code, inClosed, sawEof, childOut, childErr,
                 inPipe, outPipe, errPipe>>

\* It exits, or a write to a pipe without a reader kills it.
Exit ==
  /\ \/ child = "choose" /\ MayAnswer /\ code' \in {0, 1}
     \/ child \in {"writeOut", "writeErr"} /\ Abandoned /\ code' = 1
  /\ child' = "exited"
  /\ inClosed' = TRUE
  /\ outClosed' = TRUE
  /\ UNCHANGED <<mode, readsFirst, parentVars, sawEof, childOut, childErr, inPipe, outPipe, errPipe>>

Child == Choose \/ ReadIn \/ WriteOut \/ WriteErr \/ CloseIn \/ CloseOut \/ Exit
-----------------------------------------------------------------------------
Next == Parent \/ Child

Spec == Init /\ [][Next]_vars

\* Both processes run: neither stays in a call that can be finished, and the child
\* does not compute for ever.
FairSpec == Spec /\ WF_vars(Parent) /\ WF_vars(Child)
-----------------------------------------------------------------------------
TypeOK ==
  /\ mode \in {"complete", "chat"}
  /\ readsFirst \in BOOLEAN
  /\ pc \in {"spawn", "writeStdin", "readStdout", "drain", "wait", "done"}
  /\ result \in {"none", "notStarted", "stdinError", "readError", "childError", "ok"}
  /\ unwritten \in 0 .. Prompt
  /\ inOpen \in BOOLEAN /\ inClosed \in BOOLEAN /\ outClosed \in BOOLEAN /\ sawEof \in BOOLEAN
  /\ text \in 0 .. MaxOut /\ childOut \in 0 .. MaxOut
  /\ errText \in 0 .. MaxErr /\ childErr \in 0 .. MaxErr
  /\ inPipe \in 0 .. PipeCap /\ outPipe \in 0 .. PipeCap /\ errPipe \in 0 .. PipeCap
  /\ child \in {"unborn", "choose", "readIn", "writeOut", "writeErr", "exited"}
  /\ code \in {0, 1}

\* An answer that is returned as a success is all the child printed, and the child
\* was given the whole prompt and ended with status 0.
OkIsWholeAnswer ==
  result = "ok" => Exited /\ code = 0 /\ unwritten = 0 /\ text = childOut

\* An error that names the child's failure carries everything it said on stderr; that
\* of a chat may carry nothing of it (stderr that is not UTF-8), but never a part.
ErrorCarriesStderr ==
  result = "childError" =>
    /\ Exited
    /\ code # 0
    /\ errText = childErr \/ (mode = "chat" /\ errText = 0)

\* The child is in an operation that only the parent can finish, or is gone.
ChildBlocked ==
  \/ child = "readIn" /\ inPipe = 0 /\ inOpen
  \/ child = "writeOut" /\ outPipe = PipeCap
  \/ child = "writeErr" /\ errPipe = PipeCap

ParentBlocked ==
  \/ pc = "writeStdin" /\ unwritten > 0 /\ ~inClosed /\ inPipe = PipeCap
  \/ pc = "readStdout" /\ outPipe = 0 /\ ~outClosed
  \/ pc = "drain" /\ outPipe = 0 /\ errPipe = 0 /\ ~Exited
  \/ pc = "wait" /\ ~Exited

\* Parent and child wait for each other in two cases only: the child fills an output
\* pipe before it has read its prompt, which the parent is still writing; and the
\* child of a chat fills the stderr pipe, which the parent reads after its exit.
StuckOnlyOnOutput ==
  (ParentBlocked /\ ChildBlocked) =>
    \/ pc = "writeStdin" /\ child \in {"writeOut", "writeErr"}
    \/ pc \in {"readStdout", "wait"} /\ mode = "chat" /\ child = "writeErr"

\* complete returns if the child reads its prompt before it answers, however much it
\* prints on its two streams.
CompleteReturns == (mode = "complete" /\ readsFirst) ~> (pc = "done")

\* chat returns if moreover the child never fills the stderr pipe.
ChatReturns ==
  (mode = "chat" /\ readsFirst) ~> (pc = "done" \/ (child = "writeErr" /\ errPipe = PipeCap))
-----------------------------------------------------------------------------
(* What the comment on chat says of it. *)

\* "stderr is captured and surfaced on non-zero exit": a chat that returns after its
\* child failed returns what the child said on stderr.
StderrIsSurfaced ==
  [][(mode = "chat" /\ pc # "done" /\ pc' = "done" /\ Exited /\ code # 0) =>
       errText' = childErr]_vars
=============================================================================
