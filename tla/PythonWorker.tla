------------------------------ MODULE PythonWorker ------------------------------
(***************************************************************************)
(* The tools python_run and python_transform_range without a bridge: the   *)
(* taskpane (python/pyodide-runtime.ts) posts each call to one worker with *)
(* a timeout; the worker (python/pyodide-worker.ts) runs them in one       *)
(* Python.  PyNone waits for the call before: handlers interleave at each *)
(* of their awaits and share the globals of Python.                        *)
(*                                                                         *)
(* What a script prints is captured and reset as its result is, which      *)
(* stands for both; installing packages is one more await.                 *)
(***************************************************************************)
EXTENDS Naturals

CONSTANTS PyCalls,   \* calls, each made once
          WithInput, \* those with an input_json
          PyNone     \* None, and a name that is not defined

ASSUME PythonAssumption == WithInput \subseteq PyCalls /\ PyNone \notin PyCalls

VARIABLES
  worker,   \* the worker of the taskpane, numbered; 0 for null
  workers,  \* workers made so far
  waiting,  \* pendingRequests
  postedTo, \* per call: its worker, 0 before the call
  answer,   \* per call: how its promise settled
  handler,  \* per call: where its handler stands in the worker
  python,   \* globals of the current worker: __input_json__, input_data, result
  runtime,  \* whether Python is loaded in it
  mixed     \* calls in whose worker another handler was at work meanwhile

pythonVars == <<worker, workers, waiting, postedTo, answer, handler, python, runtime, mixed>>

Values == {PyNone} \cup PyCalls  \* an input is named after its call
Results == {PyNone} \cup [by : PyCalls, input : Values]
FreshPython == [json |-> PyNone, input |-> PyNone, result |-> PyNone]
Unsettled == [kind |-> "none", value |-> PyNone]
Handlers == {"none", "posted", "loaded", "json", "input", "ready", "ran", "over"}

PythonTypeOK ==
  /\ worker \in 0 .. workers /\ workers \in Nat
  /\ waiting \subseteq PyCalls /\ mixed \subseteq PyCalls
  /\ postedTo \in [PyCalls -> 0 .. workers]
  /\ answer \in [PyCalls -> [kind : {"none", "ok", "failed", "timeout", "aborted"}, value : Results]]
  /\ handler \in [PyCalls -> Handlers]
  /\ python \in [json : Values, input : Values, result : Results]
  /\ runtime \in BOOLEAN

PythonInit ==
  /\ worker = 0 /\ workers = 0 /\ waiting = {}
  /\ postedTo = [c \in PyCalls |-> 0]
  /\ answer = [c \in PyCalls |-> Unsettled]
  /\ handler = [c \in PyCalls |-> "none"]
  /\ python = FreshPython /\ runtime = FALSE
  /\ mixed = {}

\* The handlers at work in the current worker.
AtWork(c) == worker # 0 /\ postedTo[c] = worker /\ handler[c] \notin {"none", "over"}

-----------------------------------------------------------------------------
(* The taskpane. *)

\* callPyodideRuntime, sendToWorker, getOrCreateWorker.
PostCall(c) ==
  LET others == {d \in PyCalls : AtWork(d)} IN
  /\ answer[c] = Unsettled /\ postedTo[c] = 0
  /\ waiting' = waiting \cup {c}
  /\ handler' = [handler EXCEPT ![c] = "posted"]
  /\ mixed' = IF others = {} THEN mixed ELSE mixed \cup others \cup {c}
  /\ IF worker # 0 THEN postedTo' = [postedTo EXCEPT ![c] = worker] /\ UNCHANGED <<worker, workers, python, runtime>>
     ELSE /\ workers' = workers + 1 /\ worker' = workers'
          /\ postedTo' = [postedTo EXCEPT ![c] = workers']
          /\ python' = FreshPython /\ runtime' = FALSE
  /\ UNCHANGED answer

SettleCall(c, kind) ==
  /\ waiting' = waiting \ {c}
  /\ answer' = [answer EXCEPT ![c].kind = kind]

\* The timer ends whichever worker there is, the one of the call or a later one.
\* Other calls of that worker wait for their own timers.
CallRunsLate(c) ==
  /\ c \in waiting
  /\ SettleCall(c, "timeout")
  /\ worker' = 0
  /\ UNCHANGED <<workers, postedTo, handler, python, runtime, mixed>>

\* The handler does not hear of an abort.
AbortCall(c) ==
  /\ c \in waiting
  /\ SettleCall(c, "aborted")
  /\ UNCHANGED <<worker, workers, postedTo, handler, python, runtime, mixed>>

\* The "error" event of the worker.
WorkerError ==
  /\ worker # 0 /\ worker' = 0
  /\ waiting' = {}
  /\ answer' = [c \in PyCalls |-> IF c \in waiting THEN [answer[c] EXCEPT !.kind = "failed"] ELSE answer[c]]
  /\ UNCHANGED <<workers, postedTo, handler, python, runtime, mixed>>

-----------------------------------------------------------------------------
(* The worker: handleRun. *)

MovesTo(c, from, to) ==
  /\ AtWork(c) /\ handler[c] = from
  /\ handler' = [handler EXCEPT ![c] = to]
  /\ UNCHANGED <<worker, workers, postedTo, mixed>>

\* postMessage, and the "message" listener of the taskpane, which drops the
\* answer of a call that has settled.
Reply(c, kind, value) ==
  IF c \in waiting THEN waiting' = waiting \ {c} /\ answer' = [answer EXCEPT ![c] = [kind |-> kind, value |-> value]]
  ELSE UNCHANGED <<waiting, answer>>

\* ensurePyodide, which later handlers find done.
LoadPython(c) ==
  /\ MovesTo(c, "posted", "loaded") /\ runtime' = TRUE
  /\ UNCHANGED <<waiting, answer, python>>

LoadingFails(c) ==
  /\ ~runtime
  /\ MovesTo(c, "posted", "over") /\ Reply(c, "failed", PyNone)
  /\ UNCHANGED <<python, runtime>>

\* Mutant of SetInput: a call without input leaves that of the call before.
SetInputGiven(c) ==
  /\ \/ /\ c \in WithInput
        /\ MovesTo(c, "loaded", "json") /\ python' = [python EXCEPT !.json = c]
     \/ c \notin WithInput /\ MovesTo(c, "loaded", "input") /\ UNCHANGED python
  /\ UNCHANGED <<waiting, answer, runtime>>

\* __input_json__ is set and, when Python gets to it, parsed and deleted.  A
\* call without input clears the one of the call before.
SetInput(c) ==
  /\ \/ /\ c \in WithInput
        /\ MovesTo(c, "loaded", "json") /\ python' = [python EXCEPT !.json = c]
     \/ /\ c \notin WithInput
        /\ MovesTo(c, "loaded", "input") /\ python' = [python EXCEPT !.input = PyNone]
  /\ UNCHANGED <<waiting, answer, runtime>>

ParseInput(c) ==
  /\ IF python.json = PyNone  \* another handler has deleted it: NameError
     THEN MovesTo(c, "json", "over") /\ Reply(c, "failed", PyNone) /\ UNCHANGED python
     ELSE /\ MovesTo(c, "json", "input") /\ python' = [python EXCEPT !.input = python.json, !.json = PyNone]
          /\ UNCHANGED <<waiting, answer>>
  /\ UNCHANGED runtime

\* The captured output is replaced and the result reset.
Prepare(c) ==
  /\ MovesTo(c, "input", "ready") /\ python' = [python EXCEPT !.result = PyNone]
  /\ UNCHANGED <<waiting, answer, runtime>>

\* The script sets a result, computed from its input, or none.
RunScript(c) ==
  /\ MovesTo(c, "ready", "ran")
  /\ \/ python' = [python EXCEPT !.result = [by |-> c, input |-> python.input]]
     \/ UNCHANGED python
  /\ UNCHANGED <<waiting, answer, runtime>>

ScriptRaises(c) ==
  /\ MovesTo(c, "ready", "over") /\ Reply(c, "failed", PyNone)
  /\ \/ python' = [python EXCEPT !.result = [by |-> c, input |-> python.input]]
     \/ UNCHANGED python
  /\ UNCHANGED runtime

CollectResult(c) ==
  /\ MovesTo(c, "ran", "over") /\ Reply(c, "ok", python.result)
  /\ UNCHANGED <<python, runtime>>

PythonNext ==
  \/ WorkerError
  \/ \E c \in PyCalls :
       \/ PostCall(c) \/ CallRunsLate(c) \/ AbortCall(c)
       \/ LoadPython(c) \/ LoadingFails(c)
       \/ SetInput(c) \/ ParseInput(c) \/ Prepare(c)
       \/ RunScript(c) \/ ScriptRaises(c) \/ CollectResult(c)

PythonSpec == PythonInit /\ [][PythonNext]_pythonVars

-----------------------------------------------------------------------------
(* Properties. *)

\* The result a call is answered with was computed by its own script from its
\* own input, and from none when it has none, whatever calls, errors and aborts
\* came before in the same Python ("to prevent data leakage", handleRun) - unless
\* another handler was at work in it meanwhile, as that of an aborted call may be.
AnswersOwnInput ==
  \A c \in PyCalls \ mixed :
    answer[c].value # PyNone => answer[c].value = [by |-> c, input |-> IF c \in WithInput THEN c ELSE PyNone]

=================================================================================
