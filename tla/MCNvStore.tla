----------------------------- MODULE MCNvStore -----------------------------
(* Small instances of NvStore. *)
EXTENDS NvStore, TLC

Base == [keep |-> TRUE, thr |-> 0, highFreq |-> FALSE, single |-> FALSE,
         offtime |-> FALSE, needDm |-> TRUE, pinReset |-> FALSE]

\* Retention only; flash only, with AT+OFFTIME; both, with a threshold; the
\* M3 alone; the M3 alone with frequently saved user data.
AllConfigs ==
    {Base,
     [Base EXCEPT !.keep = FALSE, !.offtime = TRUE],
     [Base EXCEPT !.thr = 1, !.pinReset = TRUE],
     [Base EXCEPT !.single = TRUE, !.needDm = FALSE],
     [Base EXCEPT !.single = TRUE, !.highFreq = TRUE]}

\* The settings with no second, older copy to fall back on.
OneCopyConfigs == {c \in AllConfigs : c.thr = 0 /\ ~c.highFreq}

CtxSymmetry == Permutations(Ctxs)
=============================================================================
