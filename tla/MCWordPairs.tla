---------------------------- MODULE MCWordPairs -----------------------------
(* An instance of WordPairs for TLC: words of four bits.                    *)
EXTENDS WordPairs

MCSamples == {0, 1, 2, 5, 7, 8, 9, 12, 15}
=============================================================================
