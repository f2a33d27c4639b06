----------------------------- MODULE MCDictionary -----------------------------
(* Two dictionaries below one directory, and what may come in their place.   *)
EXTENDS DictionaryLoading, TLC

CONSTANTS R, D, E, F, G, H, L, P      \* nodes: F, G are root's files, H another's

Node(kind, owner, loose) ==
  [kind |-> kind, owner |-> owner, loose |-> loose, target |-> <<E, "f">>]

Attr(owner_d, loose_d, loose_f) ==
  (R :> Node("dir", "root", FALSE)) @@ (D :> Node("dir", owner_d, loose_d))
    @@ (E :> Node("dir", "other", FALSE)) @@ (F :> Node("file", "euid", loose_f))
    @@ (G :> Node("file", "root", FALSE)) @@ (H :> Node("file", "other", FALSE))
    @@ (L :> Node("link", "root", FALSE)) @@ (P :> Node("fifo", "root", FALSE))

Dir(names, by) ==
  [n \in Names |-> [node |-> IF n \in DOMAIN names THEN names[n] ELSE Nothing, by |-> by]]

Tree ==
  [i \in Inodes |-> CASE i = R -> Dir([d |-> D], "root")
                      [] i = D -> Dir([f |-> F, g |-> G], "root")
                      [] i = E -> Dir([f |-> G], "other")
                      [] OTHER -> Dir(<<>>, "root")]

MCInodes == {R, D, E, F, G, H, L, P}

Layout(a) == [attr |-> [i \in Inodes |-> a[i]], tree |-> Tree,
              content |-> [i \in Inodes |-> [len |-> 2, gen |-> "a"]]]

MCLayouts ==
  {Layout(a) : a \in {Attr("root", FALSE, FALSE), Attr("root", FALSE, TRUE),
                      Attr("other", FALSE, FALSE), Attr("root", TRUE, FALSE)}}

MCMoves == {<<D, "f", H>>, <<D, "f", L>>, <<D, "f", P>>, <<D, "f", Nothing>>, <<R, "d", E>>}

MCContents ==
  {[len |-> 0, gen |-> "a"], [len |-> 1, gen |-> "b"], [len |-> 2, gen |-> "a"],
   [len |-> 2, gen |-> "b"], [len |-> 3, gen |-> "a"]}

(* The other dictionary and the other user's file keep theirs.               *)
MCRewrites == {F} \X MCContents

Flag(kind, value) == [kind |-> kind, value |-> value]

Dict(path, block, literal) ==
  [kind |-> "dict", path |-> path, block |-> block, literal |-> literal]

A == <<<<1, "a">>, <<2, "a">>>>
f == <<"d", "f">>
g == <<"d", "g">>

MCConfigs ==
  {<<Flag("strict", 1), Dict(f, "main", NoLiteral)>>,
   <<Dict(f, "main", NoLiteral), Flag("strict", 1)>>,
   <<Flag("strict", 0), Dict(<<"d">>, "main", NoLiteral), Flag("strict", 1)>>,
   <<Flag("strict", 0), Dict(f, "main", NoLiteral), Dict(g, "location", NoLiteral)>>,
   <<Dict(f, "main", NoLiteral), Dict(g, "main", NoLiteral)>>,
   <<Flag("strict", 1), Dict(<<"d", "..", "g">>, "main", NoLiteral)>>,
   <<Flag("trust", 1), Dict(f, "main", A), Dict(g, "main", NoLiteral)>>,
   <<Dict(f, "main", A), Flag("trust", 1)>>,
   <<Dict(f, "location", A), Flag("trust", 0), Flag("trust", 1)>>,
   <<Dict(g, "main", Malformed)>>,
   <<Flag("strict", 1), Dict(<<>>, "main", NoLiteral)>>,
   <<Flag("strict", 1), Dict(<<"d", "long">>, "main", NoLiteral)>>}
==============================================================================
