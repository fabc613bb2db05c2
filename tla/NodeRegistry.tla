---------------------------- MODULE NodeRegistry ----------------------------
(***************************************************************************)
(* What the store promises an administrator.  The registry is the site's   *)
(* configuration and, for each machine, the profile and display weight     *)
(* the panel edits.  An operation takes effect on disk at one instant and  *)
(* only afterwards becomes visible to the clients of the running server;   *)
(* no operation starts before the previous one is visible.  A stop or a    *)
(* crash changes nothing on disk, and a restart shows exactly what the     *)
(* disk holds.  Reports, flushes and history batches are invisible here.   *)
(***************************************************************************)
EXTENDS Naturals

CONSTANTS Nodes,   \* identities a machine can be given
          Metas,   \* values of the metadata the panel edits
          Cfgs,    \* values of the site configuration
          NoNode,  \* "there is no such machine"
          Down     \* what clients see while the server does not run

VARIABLES durable,  \* the registry on disk
          view      \* the registry the running server shows

registryVars == <<durable, view>>

Entry == [meta: Metas, weight: Nat]

Present(d) == {n \in Nodes : d.nodes[n] # NoNode}

(* The results an administrative operation can have on the registry d. *)
Configure(d, e) == e.cfg \in Cfgs /\ e.nodes = d.nodes

Register(d, e) ==
    \E n \in Nodes \ Present(d) :
        /\ e.nodes[n] \in Entry
        /\ \A p \in Present(d) : d.nodes[p].weight < e.nodes[n].weight
        /\ e = [d EXCEPT !.nodes[n] = e.nodes[n]]

Edit(d, e) ==
    \E n \in Present(d), m \in Metas :
        e = [d EXCEPT !.nodes[n].meta = m]

Unregister(d, e) == \E n \in Present(d) : e = [d EXCEPT !.nodes[n] = NoNode]

(* Reordering moves weights only. *)
Rearrange(d, e) ==
    /\ e.cfg = d.cfg
    /\ Present(e) = Present(d)
    /\ \A n \in Present(d) : e.nodes[n].meta = d.nodes[n].meta

Operation(d, e) == \/ Configure(d, e)
                   \/ Register(d, e)
                   \/ Edit(d, e)
                   \/ Unregister(d, e)
                   \/ Rearrange(d, e)
-----------------------------------------------------------------------------
Init == /\ durable.cfg \in Cfgs
        /\ durable.nodes = [n \in Nodes |-> NoNode]
        /\ view = durable

Perform == /\ view = durable
           /\ Operation(durable, durable')
           /\ UNCHANGED view

Show == /\ view # Down
        /\ view' = durable
        /\ UNCHANGED durable

Halt == view' = Down /\ UNCHANGED durable

Restart == /\ view = Down
           /\ view' = durable
           /\ UNCHANGED durable

Next == Perform \/ Show \/ Halt \/ Restart

Spec == Init /\ [][Next]_registryVars
=============================================================================
