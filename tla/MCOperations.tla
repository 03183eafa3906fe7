----------------------------- MODULE MCOperations -----------------------------
\* The operations on three disks with the workloads below, and the KV store's.
EXTENDS Operations, TLC

CONSTANTS d1, d2, d3, k1, k2, k3, c1, c2, c3

Bkt(a, b, c) == [r \in BktReq |-> CASE r = "r1" -> a [] r = "r2" -> b [] r = "r3" -> c]

MCBktWork ==
  {Bkt("create", "create", "put"), Bkt("create", "delete", "put"), Bkt("create", "enable", "create"),
   Bkt("create", "force", "put"), Bkt("create", "delete", "create"), Bkt("create", "create", "stat"),
   Bkt("create", "enable", "put"), Bkt("create", "delete", "list"), Bkt("create", "put", "create")}

Cl(a, b) == (1 :> a) @@ (2 :> b)
Cr == [op |-> "create", part |-> 1, claim |-> Cl(NoPart, NoPart), small |-> FALSE]
Up(p, small) == [op |-> "upload", part |-> p, claim |-> Cl(NoPart, NoPart), small |-> small]
Co(a, b) == [op |-> "complete", part |-> 1, claim |-> Cl(a, b), small |-> FALSE]
Mp(u, v, c) == ("k" :> Cr) @@ ("u" :> u) @@ ("v" :> v) @@ ("c" :> c)

\* Two uploads of one part; two parts, the last small; a first part that is too
\* small; two completes.
MCMpWork ==
  {Mp(Up(1, FALSE), Up(1, FALSE), Co("u", NoPart)), Mp(Up(1, FALSE), Up(2, TRUE), Co("u", "v")),
   Mp(Up(1, TRUE), Up(2, TRUE), Co("u", "v")),
   Mp(Up(1, TRUE), Co("u", NoPart), Co("u", NoPart))}

MCOwner == <<1, 2, 3>>

\* Calls to the KV store: three at a time over the keys that are cached already.
Put(keys) == [kind |-> "put", keys |-> keys]
Get(keys) == [kind |-> "get", keys |-> keys]
Exists(keys) == [kind |-> "exists", keys |-> keys]
Reset == [kind |-> "reset", keys |-> <<>>]

Load(warm, a, b, c) == [warm |-> warm, calls |-> (c1 :> a @@ c2 :> b @@ c3 :> c)]

Workloads ==
  { Load(<<>>, Put(<<k1>>), Get(<<k1>>), Exists(<<k1>>)),
    Load(<<k1, k2>>, Put(<<k3>>), Put(<<k2>>), Get(<<k1, k2>>)),
    Load(<<k1>>, Put(<<k2, k3>>), Put(<<k1>>), Get(<<k1>>)),
    Load(<<k1, k2>>, Put(<<k3, k3>>), Reset, Get(<<k1>>)) }
===============================================================================
