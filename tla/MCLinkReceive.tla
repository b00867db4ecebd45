--------------------------- MODULE MCLinkReceive ----------------------------
(***************************************************************************)
(* A frame without payload, and one each whose last payload byte looks    *)
(* like the start of a MAVLink 2 and of a MAVLink 1 frame; the stream      *)
(* takes one frame whole and part, or all, of the next.                    *)
(***************************************************************************)
EXTENDS LinkReceive

MCPayloads == {<<>>, <<"plain", "stx">>, <<"stx1">>}
=============================================================================
