---------------------------- MODULE MCPageRead ----------------------------
(* Four pages: three runs, one of them of two pages,                        *)
(* and a run that joins two pages with a hole between them.                 *)
EXTENDS PageRead
G(n) == [res |-> "gpu", phys |-> n, dirty |-> TRUE]
Clean(n) == [res |-> "gpu", phys |-> n, dirty |-> FALSE]
C == [res |-> "cpu", phys |-> 0, dirty |-> TRUE]
N == [res |-> "none", phys |-> 0, dirty |-> FALSE]
MCPlacements == {<<G(1), Clean(3), G(5), G(6)>>, <<C, G(5), N, G(6)>>}
Call(io, f, m) == [io |-> io, flags |-> f, metaSize |-> m, target |-> "ok"]
Astray(io, t) == [io |-> io, flags |-> {}, metaSize |-> 4, target |-> t]
MCCalls == {Call(io, {}, 4) : io \in {109, 111, 113, 114, 115, 116}}
           \cup {Call(117, {"shared"}, 0), Call(115, {}, 1), Call(117, {"serial", "decrypt"}, 0)}
           \cup {Astray(io, "unmanaged") : io \in {109, 111, 113, 116}}
           \cup {Astray(io, "foreign") : io \in {109, 111, 113, 114, 115, 117}}
=============================================================================
