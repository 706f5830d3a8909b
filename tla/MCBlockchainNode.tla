-------------------------- MODULE MCBlockchainNode --------------------------
(* Instances of BlockchainNode for TLC: two clients of one server.  Either *)
(* both mine, one of them twice, or one client and the server do; all are  *)
(* in one culture, or the second client in another.                        *)
EXTENDS BlockchainNode, TLC

CONSTANTS a, b, s

Star == {<<a, s>>, <<b, s>>}

Culture(z) == a :> "pt-BR" @@ b :> z @@ s :> "pt-BR"
Blocks(i, j, k) == a :> i @@ b :> j @@ s :> k

StarSetups ==
  [culture : {Culture("pt-BR"), Culture("en-US")}, blocks : {Blocks(1, 2, 0), Blocks(1, 0, 1)}]

=============================================================================
