----------------------------- MODULE MCBitfield -----------------------------
(***************************************************************************)
(* bitfield.c on every payload of up to MaxChars characters at the borders *)
(* of its tests, and every bit range in and just around it.                *)
(***************************************************************************)
EXTENDS Bitfield

\* '/', '0', '@', 'P' (a space in a text), 'W', '`', 'w', 'x'
BoundaryCharacters == {47, 48, 64, 80, 87, 96, 119, 120}
=============================================================================
