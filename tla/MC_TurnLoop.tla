------------------------------ MODULE MC_TurnLoop ------------------------------
(***************************************************************************)
(* A read-only tool, a side-effecting one, and a side-effecting one whose  *)
(* executor fences the idempotency key.                                    *)
(***************************************************************************)
EXTENDS TurnLoop

MCCall == {"read", "write", "fenced"}
MCReadOnly == {"read"}
MCIdempotent == {"read", "fenced"}

\* A barrier before two reads that overlap, in a round with a call that must not be
\* replayed; a read before a barrier, in a round whose calls may all be.
MCOutputs == {<<"write", "read", "read">>, <<"read", "fenced">>}
ShortOutputs == {<<"fenced", "read">>, <<"write">>}
OneOutput == {<<"fenced", "write">>}

\* Everything but the counter of node executions, which no guard reads.
WithoutExecutions ==
    <<phase, node, iter, last, cancelled, ckpt, held, result, crashes, staleRuns,
      local, saved, kept, world>>
===============================================================================
