----------------------------- MODULE MCBootloader -----------------------------
(***************************************************************************)
(* Frames of three bytes, pages of two and sectors of four: a frame spans  *)
(* pages, and a page may be completed by the second byte of a frame.  The  *)
(* sizes are those BEGIN refuses, an image that ends inside a page, and    *)
(* one that ends inside the last page of the staging area.                 *)
(***************************************************************************)
EXTENDS Bootloader

MCImageSizes == {0, 1, 7, 9}
MCPayloads == {<<"x", "FF", "x">>, <<"FF", "x", "x">>}
MCFactoryImage == <<"x", "x">>
=============================================================================
