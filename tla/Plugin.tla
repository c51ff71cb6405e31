------------------------------- MODULE Plugin -------------------------------
(***************************************************************************)
(* An algorithm that runs as a plugin: the program's client                *)
(* (plugins/src/lib.rs), the transport, and the server the plugin runs     *)
(* (plugins/src/sdk.rs).  A native plugin is a library that runs in the    *)
(* caller's thread for as long as it likes (native.rs).  Any other is a    *)
(* child process (process.rs): a worker thread writes one request to its   *)
(* stdin and reads one line from its stdout, while the caller waits for the*)
(* line at most as long as the timeout.                                    *)
(*                                                                         *)
(* A model is the sequence of what was done with it, so a plugin that has  *)
(* missed a call, or done one twice, is told from one that has not.        *)
(***************************************************************************)
EXTENDS Naturals, Sequences

CONSTANTS Faulty   \* how plugins may misbehave

\* It refuses a request; answers with something else than was asked for; says
\* it twice; writes what is no message; or dies.
Fault == {"error", "odd", "twice", "garbage", "crash"}

ASSUME FaultAssumption == Faulty \subseteq Fault

VARIABLES
  native,       \* the transport
  sequence, failed,    \* Client
  call,         \* the request whose answer the caller waits for, or NoCall
  result,       \* how its last call ended, or NoResult
  open,         \* the client exists
  requests, responses,   \* the channels to and from the worker thread
  worker,       \* "recv", "read" or "gone"
  stdin, stdout, alive,  \* the child
  model         \* Server.model

cvars == <<native, sequence, failed, call, result, open>>
tvars == <<requests, responses, worker, stdin, stdout, alive, model>>
pvars == <<cvars, tvars>>

NoCall   == [id |-> 0, method |-> "none", arg |-> <<>>]
NoResult == [kind |-> "none", log |-> <<>>]
NoModel  == [loaded |-> FALSE, log |-> <<>>]
Loaded(log) == [loaded |-> TRUE, log |-> log]

Value(kind) == [kind |-> kind, log |-> <<>>]
Garbage == [id |-> 0, value |-> Value("garbage")]

PluginInit ==
  /\ native \in BOOLEAN /\ sequence = 0 /\ failed = FALSE
  /\ call = NoCall /\ result = NoResult /\ open = FALSE
  /\ requests = <<>> /\ responses = <<>> /\ worker = "gone"
  /\ stdin = <<>> /\ stdout = <<>> /\ alive = FALSE /\ model = NoModel

-----------------------------------------------------------------------------
(* The server.                                                             *)

\* The calls that need a model, and what a legal answer to each is.
NeedsModel == {"generate", "feedback", "save"}
Expected(method) ==
  CASE method = "describe" -> "descriptor"
    [] method \in {"train", "load", "feedback"} -> "null"
    [] method = "generate" -> "batch"
    [] method = "save" -> "payload"

\* The model a call leaves.  A refused train or load leaves the one that was
\* there, any other refusal perhaps one it has half changed.
Changed(r) ==
  CASE r.method = "train" -> Loaded(<<"train">>)
    [] r.method = "load"  -> Loaded(r.arg)
    [] r.method = "generate" -> Loaded(Append(model.log, "generate"))
    [] r.method = "feedback" -> Loaded(model.log \o r.arg)
    [] OTHER -> model

\* dispatch(): the outcomes of a request.
Dispatch(r) ==
  LET answer == [kind |-> Expected(r.method),
                 log |-> IF r.method = "save" THEN model.log ELSE <<>>]
      refusals == IF r.method = "describe" THEN {}
                  ELSE IF r.method \in {"generate", "feedback"} THEN {model, Changed(r)}
                  ELSE {model}
  IN  IF r.method \in NeedsModel /\ ~model.loaded
      THEN {[value |-> Value("error"), model |-> model]}
      ELSE {[value |-> answer, model |-> Changed(r)]}
           \cup (IF "error" \in Faulty
                 THEN {[value |-> Value("error"), model |-> m] : m \in refusals} ELSE {})
           \cup (IF "odd" \in Faulty
                 THEN {[value |-> Value("odd"), model |-> Changed(r)]} ELSE {})

-----------------------------------------------------------------------------
(* The client.                                                             *)

\* call() accepts a message with the id of the request and a result, and
\* request() or model() what decodes as one.
Accepted_Any(r, line) == line.value.kind = Expected(r.method)
Accepted(r, line) == line.id = r.id /\ line.value.kind = Expected(r.method)

\* The call ends; one that went wrong is the client's last.
Latched(r, line) == failed \/ ~Accepted(r, line)

Return(r, line) ==
  /\ failed' = Latched(r, line)
  /\ result' = IF Accepted(r, line) THEN line.value ELSE Value("error")
  /\ call' = NoCall

\* connect(): a new child or context, a new client.  A child that cannot be
\* started, or a library that cannot be loaded, is the caller's concern.
Connect ==
  /\ open' = TRUE /\ sequence' = 0 /\ failed' = FALSE
  /\ alive' = TRUE /\ model' = NoModel
  /\ worker' = IF native THEN "gone" ELSE "recv"
  /\ requests' = <<>> /\ responses' = <<>> /\ stdin' = <<>> /\ stdout' = <<>>
  /\ UNCHANGED <<native, call, result>>

\* Native::exchange(): the library is called in the caller's thread, which
\* has no timeout.  It may never return; a panic of the plugin is a code other
\* than 0, and its buffer is released in every case.
CallNative(r) == call' = r /\ UNCHANGED <<failed, result, requests>>

NativeReturns ==
  /\ native /\ call # NoCall
  /\ \/ \E out \in Dispatch(call) :
          /\ Return(call, [id |-> call.id, value |-> out.value])
          /\ model' = out.model
     \/ /\ Faulty \cap {"crash", "garbage"} # {}
        /\ Return(call, Garbage)
        /\ model' \in {model, Changed(call)}
  /\ UNCHANGED <<native, sequence, open, requests, responses, worker, stdin, stdout, alive>>

\* Process::exchange() hands the request to the worker, unless it has one.
CallProcess(r) ==
  IF worker = "gone" \/ requests # <<>>
  THEN Return(r, Garbage) /\ UNCHANGED requests
  ELSE requests' = <<r>> /\ call' = r /\ UNCHANGED <<failed, result>>

Call(method, arg) ==
  /\ call = NoCall /\ open
  /\ IF failed
     THEN result' = Value("error") /\ UNCHANGED <<sequence, failed, call, requests>>
     ELSE LET r == [id |-> sequence + 1, method |-> method, arg |-> arg]
          IN  /\ sequence' = sequence + 1
              /\ IF native THEN CallNative(r) ELSE CallProcess(r)
  /\ UNCHANGED <<native, open, responses, worker, stdin, stdout, alive, model>>

\* The answer is there, or an error of the worker.
Receive ==
  /\ call # NoCall /\ responses # <<>>
  /\ Return(call, Head(responses))
  /\ responses' = Tail(responses)
  /\ UNCHANGED <<native, sequence, open, requests, worker, stdin, stdout, alive, model>>

\* It is not: the child is killed.
Timeout ==
  /\ ~native /\ call # NoCall /\ responses = <<>>
  /\ Return(call, Garbage)
  /\ alive' = FALSE /\ model' = NoModel
  /\ UNCHANGED <<native, sequence, open, requests, responses, worker, stdin, stdout>>

\* The client is dropped: the child is killed, the context destroyed.
Close_Detached ==
  /\ open' = FALSE
  /\ UNCHANGED <<native, sequence, failed, requests, responses, worker, stdin, stdout, alive,
                 model>>
Close ==
  /\ open' = FALSE /\ alive' = FALSE /\ model' = NoModel
  /\ UNCHANGED <<native, sequence, failed, requests, responses, worker, stdin, stdout>>

-----------------------------------------------------------------------------
(* The worker thread, and the child.                                       *)

\* A response to the caller; the thread goes on unless it is an error or
\* nobody waits for it.
Respond(line) ==
  /\ responses = <<>> \/ ~open
  /\ responses' = IF open THEN <<line>> ELSE responses
  /\ worker' = IF open /\ line # Garbage THEN "recv" ELSE "gone"

\* It takes a request and writes it, or ends when the client is gone.
TakeRequest ==
  /\ worker = "recv"
  /\ requests' = <<>>
  /\ IF requests # <<>> /\ alive
     THEN stdin' = Append(stdin, Head(requests)) /\ worker' = "read" /\ UNCHANGED responses
     ELSE /\ UNCHANGED stdin
          /\ IF requests # <<>> THEN Respond(Garbage)
             ELSE ~open /\ worker' = "gone" /\ UNCHANGED responses
  /\ UNCHANGED <<cvars, stdout, alive, model>>

\* read_message(): a line, or the end of the child's output.
Read ==
  /\ worker = "read"
  /\ IF stdout # <<>>
     THEN Respond(Head(stdout)) /\ stdout' = Tail(stdout)
     ELSE ~alive /\ Respond(Garbage) /\ UNCHANGED stdout
  /\ UNCHANGED <<cvars, requests, stdin, alive, model>>

\* The plugin serves a request, in its way.
Serve ==
  /\ alive /\ stdin # <<>>
  /\ stdin' = Tail(stdin)
  /\ \E out \in Dispatch(Head(stdin)) :
       LET line == [id |-> Head(stdin).id, value |-> out.value]
       IN  /\ model' = out.model
           /\ \/ stdout' = Append(stdout, line)
              \/ "twice" \in Faulty /\ stdout' = stdout \o <<line, line>>
              \/ "garbage" \in Faulty /\ stdout' = Append(stdout, Garbage)
  /\ UNCHANGED <<cvars, requests, responses, worker, alive>>

Crash ==
  /\ alive /\ ~native /\ "crash" \in Faulty
  /\ alive' = FALSE /\ model' = NoModel
  /\ UNCHANGED <<cvars, requests, responses, worker, stdin, stdout>>

WorkerStep == TakeRequest \/ Read
=============================================================================
