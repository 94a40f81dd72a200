---------------------------- MODULE MCFunctions ----------------------------
(***************************************************************************)
(* The parts that depend on nothing but their callers, over all small      *)
(* inputs.  They do not interact, so they are explored one at a time: part *)
(* says which, and the others stay as they begin.                          *)
(***************************************************************************)
EXTENDS Separators, BloomFilter, Arena, Crc32c, MCLogger

\* Strings of these lengths, each of other bytes.
MCPieces == { [i \in 1 .. n |-> (37 * i + 101 * n) % 256] : n \in {0, 1, 3, 4, 18, 21, 39} }

VARIABLE part

vars == <<part, separatorVars, filterVars, arenaVars, crcVars, loggerVars>>

Init ==
    /\ part \in {"separators", "filters", "arena", "crc", "logger"}
    /\ SeparatorInit /\ FilterInit /\ ArenaInit /\ CrcInit /\ LoggerInit
    /\ part # "filters" => hash = [k \in FilterKeys |-> 0]
    /\ part # "separators" => Sequence(start) = 1 /\ Sequence(limit) = 1

SeparatorsPart ==
    part = "separators" /\ SeparatorNext
    /\ UNCHANGED <<part, filterVars, arenaVars, crcVars, loggerVars>>

FiltersPart ==
    part = "filters" /\ FilterNext
    /\ UNCHANGED <<part, separatorVars, arenaVars, crcVars, loggerVars>>

ArenaPart ==
    part = "arena" /\ ArenaNext
    /\ UNCHANGED <<part, separatorVars, filterVars, crcVars, loggerVars>>

CrcPart ==
    part = "crc" /\ CrcNext
    /\ UNCHANGED <<part, separatorVars, filterVars, arenaVars, loggerVars>>

LoggerPart ==
    part = "logger" /\ LoggerNext
    /\ UNCHANGED <<part, separatorVars, filterVars, arenaVars, crcVars>>

Next == SeparatorsPart \/ FiltersPart \/ ArenaPart \/ CrcPart \/ LoggerPart

Spec == Init /\ [][Next]_vars

\* The checksum that test/test_crc32c.cpp has for 32 bytes of zeros, 0x8A9136AA.
ASSUME StandardResult ==
    Xor(Divided(kCrc32Xor, [i \in 1 .. 32 |-> 0]), kCrc32Xor)
      = {1, 3, 5, 7, 9, 10, 12, 13, 16, 20, 23, 25, 27, 31}

=============================================================================
