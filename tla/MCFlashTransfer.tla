--------------------------- MODULE MCFlashTransfer ---------------------------
(***************************************************************************)
(* An image of four frames, the last one short, and two pages, the last    *)
(* one short too; progress is reported on every second frame.  There are   *)
(* three sequence numbers, so that the first and the last frame share one. *)
(***************************************************************************)
EXTENDS FlashTransfer

MCImage == <<"a", "b", "c", "a", "b", "c", "d">>
MCSessionIds == {1, 2}
MCImageSizes == {7}
MCPayloads == {<<"a", "b">>, <<"c", "a">>, <<"b", "c">>, <<"d", "FF">>}
MCFactoryImage == <<"a">>
=============================================================================
