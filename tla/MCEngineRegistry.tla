-------------------------- MODULE MCEngineRegistry --------------------------
(* Small instances of EngineRegistry for TLC. *)
EXTENDS EngineRegistry

CONSTANTS step, move, import, r1, r2, r3, r4, r5

(* A step sent twice, a relocation sent twice, and an import; ...          *)
MCKeyOf == [r \in Request |-> CASE r \in {r1, r2} -> step [] r \in {r3, r4} -> move [] OTHER -> import]
MCKind == [k \in Key |-> CASE k = step -> "step" [] k = move -> "move" [] OTHER -> "import"]
(* ... the second relocation by mistake under the key of the first.        *)
MCPayloadOf == [r \in Request |-> IF r = r4 THEN "other" ELSE "own"]
=============================================================================
