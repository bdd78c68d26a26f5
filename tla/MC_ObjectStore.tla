---------------------------- MODULE MC_ObjectStore ----------------------------
(***************************************************************************)
(* Two raw nodes under one operation key (a commit and its retry), a raw    *)
(* node of its own, and an abstract node.                                   *)
(***************************************************************************)
EXTENDS ObjectStore

MCKeyOf == <<"input", "input", "answer", "knowledge">>
MCTwoKeys == <<"input", "answer">>
===============================================================================
