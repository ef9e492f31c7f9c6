---------------------------- MODULE MountPoints ----------------------------
(***************************************************************************)
(* The mount configuration of a user (src/mount.rs): the device mounted    *)
(* on the home directory and the "pre-mounts", a hash map from directory   *)
(* to device, performed before it.                                         *)
(*                                                                         *)
(* A Rust HashMap is iterated in an order that differs from one instance   *)
(* to the next, so everything that iterates the pre-mounts takes that      *)
(* order as a parameter: whoever loads a configuration picks one of        *)
(* Orders(m).                                                              *)
(***************************************************************************)
EXTENDS Naturals, Sequences, FiniteSets, Functions

CONSTANTS
    Targets,     \* directories a file system can be mounted on
    Params       \* (device, fstype, flags) triples, MountParams in the code

ASSUME TargetsAssumption == IsFiniteSet(Targets)

\* struct MountPoints: `home`, and `mounts` from directory to parameters.
MountPoints ==
    [home : Params, mounts : UNION {[D -> Params] : D \in SUBSET Targets}]

\* The orders in which one instance of m.mounts may be iterated.
Orders(m) ==
    Bijection(1 .. Cardinality(DOMAIN m.mounts), DOMAIN m.mounts)

\* MountPoints::with_mount and ::with_premount.
with_mount(m, params) == [m EXCEPT !.home = params]

with_premount(m, dir, params) ==
    [m EXCEPT !.mounts = [d \in DOMAIN m.mounts \cup {dir} |->
                             IF d = dir THEN params ELSE m.mounts[d]]]

\* MountPoints::foreach: the pre-mounts, in iteration order.
foreach(m, order) == [i \in DOMAIN order |-> <<order[i], m.mounts[order[i]]>>]

\* MountPoints::hash: the digest covers the home parameters and then every
\* pre-mount in iteration order. The digest itself is taken to be injective.
hash(m, order) == [home |-> m.home, mounts |-> foreach(m, order)]

\* Every digest the configuration m can have.
Hashes(m) == {hash(m, order) : order \in Orders(m)}
============================================================================
