--------------------------- MODULE MCMultiFileApply ---------------------------
(***************************************************************************)
(* MultiFileApply on small directories: every list of at most MaxItems     *)
(* file patches over four paths, one of them below another one.            *)
(***************************************************************************)
EXTENDS MultiFileApply

CONSTANTS MaxItems, c1, c2

Paths == {<<"f">>, <<"g">>, <<"d", "h">>, <<"f", "x">>}

(* Files without a file for their directory; f and d/h may be directories. *)
MCTrees ==
  {(<<"f">> :> c1), (<<"f">> :> c1) @@ (<<"d", "h">> :> c1),
   (<<"f", "x">> :> c1) @@ (<<"g">> :> c2),
   (<<"f", "x">> :> c1) @@ (<<"d", "h", "y">> :> c2)}

Patch(kind, from, to) == [kind |-> kind, from |-> from, to |-> to]
MkItem(op, from, to, patch) == [op |-> op, from |-> from, to |-> to, patch |-> patch]

A(p) == <<"a">> \o p
B(p) == <<"b">> \o p
Marker == Patch("marker", Empty, Empty)

Items ==
  {MkItem("error", <<>>, <<>>, Marker)}
  \cup {MkItem("create", B(p), B(p), patch) :
          p \in Paths, patch \in {Patch("change", Empty, c2), Marker}}
  \cup {MkItem("delete", A(p), A(p), Patch("change", c1, Empty)) : p \in Paths}
  \cup {MkItem("modify", A(p), B(q), patch) :
          p \in Paths, q \in Paths,
          patch \in {Patch("change", c1, c2), Patch("literal", c1, c2), Marker}}
  \cup {MkItem(op, p, q, Patch("change", c1, to)) :
          op \in {"rename", "copy"}, p \in Paths, q \in Paths, to \in {c1, c2}}

MCItemLists == BoundedSeq(Items, MaxItems)

=============================================================================
