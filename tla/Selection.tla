------------------------------ MODULE Selection ------------------------------
(***************************************************************************)
(* The selection of resources: what the options form offers and stores     *)
(* (config_flow.py, build_inventory) and what it lets through              *)
(* (filter_data_by_selection).                                             *)
(*                                                                         *)
(* options is the resource part of entry.options: a function on the fields *)
(* that were ever stored.                                                  *)
(***************************************************************************)
EXTENDS Storage, ComposeData

\* _RESOURCE_FIELDS and _OPT_IN_FIELDS.
ResourceFields ==
  {"disks", "filesystems", "services", "networks", "raids", "pools",
   "projects", "containers", "vms"}

Fields == ResourceFields \cup {"cron"}

NothingOffered == [f \in Fields |-> {}]

\* build_inventory: what there is to select, without regard to the selection.
BuildInventory(source) ==
  [disks |-> Keys(source.disk),
   filesystems |-> {source.fs[i].key : i \in {j \in DOMAIN source.fs : source.fs[j].type # "zfs"}},
   services |-> source.services, networks |-> Keys(source.networks),
   raids |-> Keys(source.raid), pools |-> Keys(source.pools),
   projects |-> Keys(source.projects), containers |-> Keys(source.compose),
   vms |-> source.vms, cron |-> source.cron]

\* _get_inventory: stored values stay on offer though their resource is away.
OfferedValues(inventory, options) ==
  [f \in Fields |-> inventory[f] \cup (IF f \in DOMAIN options THEN options[f] ELSE {})]

\* Mutant: a field that was never stored starts empty.
DefaultIsNothing(f, options, offered) ==
  IF f \in DOMAIN options THEN options[f] ELSE {}

\* Everything, until any selection is stored; then what is stored.
DefaultSelection(f, options, offered) ==
  IF f \in DOMAIN options THEN options[f]
  ELSE IF f = "cron" \/ DOMAIN options \cap ResourceFields # {} THEN {}
  ELSE offered[f]

\* The form as it is shown, with the defaults that are submitted if nobody
\* changes them.
UntouchedForm(inventory, options) ==
  [f \in Fields |-> DefaultSelection(f, options, OfferedValues(inventory, options))]

\* _selected_values: {} for no filter, else {values}.
SelectedValues(options, f) ==
  IF f \notin DOMAIN options THEN {}
  ELSE IF f = "raids" /\ options[f] = {} THEN {}
  ELSE {options[f]}

Passes(value, selected) == \A values \in selected : value \in values

-----------------------------------------------------------------------------

FilterDisks(disks, options) ==
  LET Shown(d) == Passes(d.key, SelectedValues(options,
                    IF d.israid \/ d.logical THEN "raids" ELSE "disks"))
  IN  Where(disks, Shown)

FilterCompose(compose, options) ==
  LET Shown(c) == ComposeSelected(c, SelectedValues(options, "containers"),
                                     SelectedValues(options, "projects"))
  IN  Where(compose, Shown)

\* Mutant: the totals of the projects are those of the whole inventory.
FilterKeepsCounts(projects, compose, options) ==
  LET Shown(p) == Passes(p.key, SelectedValues(options, "projects"))
  IN  Where(projects, Shown)

\* The totals count the containers that are shown.
FilterProjects(projects, compose, options) ==
  LET Shown(p) == Passes(p.key, SelectedValues(options, "projects"))
      Counted(p) == [p EXCEPT !.counts = ComposeProjectCounts(compose, p.key)]
  IN  Each(Where(projects, Shown), Counted)

\* filter_data_by_selection.  cron is not filtered: its selection only decides
\* which jobs get a button.  known: coordinator._inventory_source's disks.
FilterDataBySelection(source, options) ==
  LET Selected(f) == SelectedValues(options, f)
      compose == FilterCompose(source.compose, options)
      services == {s \in source.services : Passes(s, Selected("services"))}
  IN  [source EXCEPT
         !.known = Keys(source.disk),
         !.disk = FilterDisks(@, options),
         !.fs = Where(@, LAMBDA f : Passes(f.key, Selected("filesystems"))),
         !.services = services,
         !.networks = Where(@, LAMBDA n : Passes(n.key, Selected("networks"))),
         !.raid = Where(@, LAMBDA r : Passes(r.key, Selected("raids"))),
         !.pools = Where(@, LAMBDA p : Passes(p.key, Selected("pools"))),
         !.datasets = Where(@, LAMBDA d : Passes(d.pool, Selected("pools"))),
         !.compose = compose,
         !.projects = FilterProjects(@, compose, options),
         !.volumes = Where(@, LAMBDA v : v.container \in Keys(compose)),
         !.summary = HasContainerService(services),
         !.vms = {v \in @ : Passes(v, Selected("vms"))}]
=============================================================================
