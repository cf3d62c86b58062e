---------------------------- MODULE MCIdleReaper ----------------------------
(***************************************************************************)
(* Instance of IdleReaper: one handler per response mode.                  *)
(***************************************************************************)
EXTENDS IdleReaper

C(op, n) == [op |-> op, n |-> n]

ModeHandlers ==
    { [io |-> <<C("set_body", 1)>>, job |-> <<>>],
      [io |-> <<C("content_length", 1), C("write", 1)>>, job |-> <<>>],
      [io |-> <<C("stream", 0)>>, job |-> <<C("write_chunk", 1)>>] }

ReaperRequests == { [body |-> "none", keep |-> TRUE], [body |-> "sized", keep |-> TRUE],
                    [body |-> "none", keep |-> FALSE] }
=============================================================================
