---------------------------- MODULE LocalAllocator ----------------------------
(***************************************************************************)
(* The in-process game server allocator                                    *)
(* (internal/matchmaking/application/local_allocator.go): a fixed number   *)
(* of servers per region, handed out per match id under one mutex.         *)
(***************************************************************************)
EXTENDS Naturals, FiniteSets, GoMaps

CONSTANTS Regions, ServerCount

\* NewLocalAllocatorWithCapacities refuses negative counts.
ASSUME CapacityAssumption == ServerCount \in [Regions -> Nat]

VARIABLE allocations   \* match id -> region of the server it holds

\* Servers of region g in use.
InUse(g) == Cardinality({m \in DOMAIN allocations : allocations[m] = g})

\* Capacities: what the allocator offers in region g.
AvailableServers(g) == ServerCount[g] - InUse(g)

\* The match holds a server already, or one is free.
CanAllocate(m, g) == m \in DOMAIN allocations \/ InUse(g) < ServerCount[g]

\* Allocate: a match that holds a server keeps it.
Allocate(m, g) ==
  /\ CanAllocate(m, g)
  /\ allocations' = IF m \in DOMAIN allocations THEN allocations
                    ELSE Put(allocations, m, g)

\* Release: a no-op for a match that holds no server.
Release(m) == allocations' = Delete(allocations, m)
=============================================================================
