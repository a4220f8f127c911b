--------------------------- MODULE MCReplaySetup ---------------------------
(* Model checking of ReplaySetup: a module in all three packages, one in   *)
(* two of them, one in the first.                                          *)
EXTENDS ReplaySetup

CONSTANTS local, other, prebuilt, everywhere, twice, once

MCLocal    == <<local, other>>
MCPrebuilt == <<prebuilt>>
MCContents == [p \in {local, other, prebuilt} |->
    CASE p = local    -> {everywhere, twice, once}
      [] p = other    -> {everywhere}
      [] p = prebuilt -> {everywhere, twice}]
=============================================================================
