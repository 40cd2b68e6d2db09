--------------------------- MODULE MCBlackChannel ----------------------------
(***************************************************************************)
(* Four-bit consecutive numbers, first used two below the wrap; and, by    *)
(* TelegramCrc, the facts that the ideal CRC of BlackChannel stands on.    *)
(***************************************************************************)
EXTENDS BlackChannel, TelegramCrc

MCStarts == {Modulus - 2}
=============================================================================
