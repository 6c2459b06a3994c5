------------------------------- MODULE MCSds -------------------------------
(* Sds for TLC: headers of 1, 2, 3 and 4 bits, and the letters a and space and    *)
(* the byte 0 for all others.                                                *)
EXTENDS Sds

FieldBits == <<1, 2, 3, 4>>
Strings == {<<>>, <<97>>, <<32>>, <<0>>, <<97, 97>>, <<97, 32>>}
Signed == {-128, 10}

Disguise(a, b, c) == (97 :> a) @@ (32 :> b) @@ (0 :> c)
Awkward == {Disguise(Backslash, Quote, LetterX), Disguise(Backslash, 110, NUL),
            Disguise(LetterX, 48, Backslash), Disguise(Quote, 32, 10),
            Disguise(200, 102, Apostrophe)}
=============================================================================
