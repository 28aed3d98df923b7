-------------------------------- MODULE MCV2v --------------------------------
(* Finite instance of V2vSession.                                            *)
EXTENDS V2vSession

MCSettings == {<<TRUE, TRUE, TRUE>>, <<TRUE, FALSE, FALSE>>, <<FALSE, TRUE, TRUE>>}
MCVadSettings == {<<TRUE, TRUE, FALSE>>}
=============================================================================
