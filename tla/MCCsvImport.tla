------------------------------ MODULE MCCsvImport ------------------------------
(***************************************************************************)
(* CsvImport on a small instance and, in behaviours of their own, the      *)
(* networks of one VM to which a row is imported again and again, for      *)
(* every VM and every row within the bounds of ImportPlan.                 *)
(***************************************************************************)
EXTENDS CsvImport

CONSTANTS v1, v2, v3, v4, n1, n2, c1, c2, e1, o1, o2

Pve(name, ext, owner, monitoring) ==
    [platform |-> "proxmox", name |-> name, cluster |-> c1, ext |-> ext, owner |-> owner,
     monitoring |-> monitoring]
VMware(name, ext, owner, monitoring) ==
    [Pve(name, ext, owner, monitoring) EXCEPT !.platform = "vmware"]

AsVm(row) ==
    [platform |-> row.platform, name |-> row.name, cluster |-> row.cluster,
     ext |-> row.ext, owner |-> row.owner, monitoring |-> row.monitoring,
     status |-> "running"]

(* Two VMs of one cluster without an owner, both monitored. *)
TwoVms ==
    {[v \in Ids |-> CASE v = v1 -> AsVm(Pve(n1, e1, Blank, "true"))
                      [] v = v2 -> AsVm(Pve(n2, Blank, Blank, "true"))
                      [] OTHER -> NoVm]}

(* One names the first VM.  One names a VM that is not there with the external id of
   the first, and another one twice, where the external id does not tell the rows
   apart. *)
SomeFiles ==
    {<<Pve(n1, e1, o1, "true")>>,
     <<Pve(n2, e1, o1, Blank), VMware(n1, e1, o1, "false"), VMware(n1, Blank, o2, Blank)>>}

VARIABLES
    part,       \* what the behaviour is about: "batches" or "networks"
    networks,   \* the networks of the VM
    mentions    \* the addresses the row mentions

BatchesInit == part = "batches" /\ networks = <<>> /\ mentions = [r \in Roles |-> <<>>]

NetworksInit == part = "networks" /\ networks \in NetworkLists /\ mentions \in MentionLists

MCInit == Init /\ (BatchesInit \/ NetworksInit)

ImportBatches ==
    /\ part = "batches"
    /\ Next
    /\ UNCHANGED <<part, networks, mentions>>

ImportRow ==
    /\ part = "networks"
    /\ networks' = Attached(networks, mentions)
    /\ UNCHANGED <<part, mentions, vars>>

MCNext == ImportBatches \/ ImportRow

MCSpec == MCInit /\ [][MCNext]_<<part, networks, mentions, vars>>

(* However often a row is imported, its plan is sound: no address again, none
   moved that the row names, and nothing left to do a second time (imports.rs:
   ip_plans, attach_children). *)
PlanIsSound == part = "networks" => IsSound(networks, mentions)

(* The page says that importing only ever adds disks and IPs
   (routes/ImportCsvPage.tsx). *)
AddressesOnlyAdded ==
    [][part = "networks" => Addresses(networks) \subseteq Addresses(networks')]_networks

================================================================================
