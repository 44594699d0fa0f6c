------------------------------- MODULE NvCell -------------------------------
(***************************************************************************)
(* What an EFTL region promises its caller (xy_flash.h): a cell of         *)
(* parameters in non-volatile memory.  A write changes one parameter and   *)
(* leaves the others; it takes effect at one instant, before it is         *)
(* acknowledged; a reset in the middle of a write leaves the cell as it    *)
(* was before or as it is after; a read returns the cell.                  *)
(***************************************************************************)
CONSTANTS Params, Vals, DefaultContents, IsFactory, None

VARIABLES
    cell,   \* the contents, None before the first write
    busy,   \* a call is in progress
    req,    \* that call
    done,   \* the write has taken effect
    ret     \* the result of the last call

cellVars == <<cell, busy, req, done, ret>>

ReadReq == [kind |-> "read"]
WriteReqs == [kind : {"write"}, param : Params, val : Vals]

NoResult == [res |-> "none", data |-> None]
Ok(data) == [res |-> "ok", data |-> data]

Init ==
    /\ cell = None
    /\ busy = FALSE
    /\ req = ReadReq
    /\ done = FALSE
    /\ ret = NoResult

\* The contents after the write in progress: a first write completes the defaults.
Applied ==
    IF cell = None THEN [DefaultContents EXCEPT ![req.param] = req.val]
                   ELSE [cell EXCEPT ![req.param] = req.val]

Call(r) ==
    /\ ~busy
    /\ busy' = TRUE
    /\ req' = r
    /\ ret' = NoResult
    /\ UNCHANGED <<cell, done>>

Commit ==
    /\ busy
    /\ ~done
    /\ req.kind = "write"
    /\ cell' = Applied
    /\ done' = TRUE
    /\ UNCHANGED <<busy, req, ret>>

Finish(r) ==
    /\ busy
    /\ busy' = FALSE
    /\ done' = FALSE
    /\ ret' = r
    /\ UNCHANGED <<cell, req>>

\* A read of a cell never written fails, unless there is a default to serve.
AnswerRead ==
    /\ req.kind = "read"
    /\ \/ cell # None /\ Finish(Ok(cell))
       \/ cell = None /\ IsFactory /\ Finish(Ok(DefaultContents))
       \/ cell = None /\ ~IsFactory /\ Finish([res |-> "err", data |-> None])

AnswerWrite ==
    /\ req.kind = "write"
    /\ done \/ cell = Applied
    /\ Finish(Ok(None))

\* A write refused for low voltage has changed nothing.
RefuseWrite ==
    /\ req.kind = "write"
    /\ ~done
    /\ Finish([res |-> "lowvbat", data |-> None])

Reset ==
    /\ \/ UNCHANGED cell
       \/ busy /\ ~done /\ req.kind = "write" /\ cell' = Applied
    /\ busy' = FALSE
    /\ done' = FALSE
    /\ ret' = NoResult
    /\ UNCHANGED req

Next ==
    \/ \E r \in {ReadReq} \cup WriteReqs : Call(r)
    \/ Commit
    \/ AnswerRead \/ AnswerWrite \/ RefuseWrite
    \/ Reset

Spec == Init /\ [][Next]_cellVars
=============================================================================
