----------------------------- MODULE MCTransfer -----------------------------
(* Two commits on the first one, and their merge.                          *)
EXTENDS Transfer

MCParents == (1 :> {}) @@ (2 :> {1}) @@ (3 :> {1}) @@ (4 :> {2, 3})
MCHistory == (1 :> {1}) @@ (2 :> {1, 2}) @@ (3 :> {1, 3}) @@ (4 :> {1, 2, 3, 4})

CONSTANTS master, topic, c1, c2
MCReady == {{c1}, {c2}, {c1, c2}}
MCSymmetry == Permutations({c1, c2})
Plain(r) == [from |-> r, to |-> r]
MCPushes ==
  {{Plain(master)}, {Plain(topic)}, {Plain(master), Plain(topic)},
   {[from |-> topic, to |-> master]}, {[from |-> None, to |-> topic]}}
MCPushOptions ==
  {o \in [force : BOOLEAN, dry : BOOLEAN, setup : BOOLEAN, http : BOOLEAN] :
     (o.dry => ~o.force /\ ~o.http) /\ (o.setup => ~o.force)}
MCTip == (master :> 2) @@ (topic :> None)

MCPackFile == <<"head", "object", "object", "trailer">>
MCBuffers == {<<1, 1>>, <<1, 3>>, <<2, 1>>, <<4, 4>>}

=============================================================================
