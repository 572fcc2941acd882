----------------------------- MODULE ComposeData -----------------------------
(***************************************************************************)
(* What coordinator.py makes of the answers of the compose plugin:         *)
(* containers, the docker inspect of some of them, compose files and       *)
(* volumes.                                                                *)
(*                                                                         *)
(* A name is the sequence of its parts: "web-db-1" is <<"web","db","1">>.  *)
(* A record of a container has what the list says of its project (label),  *)
(* what docker inspect says (inspect), and the project that really runs it *)
(* (owner), which no operator here reads.                                  *)
(***************************************************************************)
EXTENDS Records

NoProject == <<>>

\* _normalize_compose: the key is the name, which outlives the Docker id.
NormalizeCompose(records) ==
  LET Container(r) == [key |-> r.name, project |-> r.label, inspect |-> r.inspect,
                       running |-> r.running, mounts |-> r.mounts,
                       values |-> r.values, owner |-> r.owner]
  IN  Each(records, Container)

\* The containers that pass the selections of containers and of projects; a
\* container whose project is unknown passes the latter.  Everybody passes a
\* selection that was never stored, which is {} and not {values}.
ComposeSelected(c, containers, projects) ==
  /\ \A keys \in containers : c.key \in keys
  /\ \A keys \in projects : c.project \in keys \cup {NoProject}

\* _merge_compose_inspect of the _compose_inspect_targets: what the list says
\* of the project goes first.
MergeComposeInspect(compose, containers, projects) ==
  LET Known(c) == IF c.project # NoProject THEN c.project ELSE c.inspect
      Merged(c) == IF ComposeSelected(c, containers, projects)
                   THEN [c EXCEPT !.project = Known(c)] ELSE c
  IN  Each(compose, Merged)

ComposeProjectCounts(compose, project) ==
  LET of == {i \in DOMAIN compose : compose[i].project = project}
  IN  [total |-> Cardinality(of),
       running |-> Cardinality({i \in of : compose[i].running})]

\* The compose files, and the projects that only containers name: these have no
\* uuid and cannot be commanded.
NormalizeComposeProjects(files, compose) ==
  LET named == {compose[i].project : i \in DOMAIN compose} \ {NoProject}
      Project(p) == [key |-> p, uuid |-> p \in files,
                     counts |-> ComposeProjectCounts(compose, p)]
  IN  Each(SetToSeq(files \cup named), Project)

\* The first project, in the order of their names, that begins the name.
MatchComposeProject(name, projects) ==
  LET begin == {p \in Keys(projects) : IsPrefix(p, name)}
  IN  IF begin = {} THEN NoProject
      ELSE CHOOSE p \in begin : \A q \in begin : IsPrefix(p, q)

LinkComposeProjects(compose, projects) ==
  LET Linked(c) == IF c.project \in Keys(projects) THEN c
                   ELSE [c EXCEPT !.project = MatchComposeProject(c.key, projects)]
  IN  Each(compose, Linked)

ComposeVolume(c, name) == [key |-> <<c.key, name>>, container |-> c.key]

\* One record per mount, though a container may mount a volume twice; nothing
\* reads their order.
NormalizeComposeMountVolumes(compose) ==
  LET mounts == UNION {{<<i, j>> : j \in DOMAIN compose[i].mounts} : i \in DOMAIN compose}
      Volume(m) == ComposeVolume(compose[m[1]], compose[m[1]].mounts[m[2]])
  IN  Each(SetToSeq(mounts), Volume)

\* A volume that OMV lists belongs to the first container that mounts it;
\* the other containers' mounts follow.
NormalizeComposeVolumes(native, compose) ==
  LET mounts == NormalizeComposeMountVolumes(compose)
      By(name) == {i \in DOMAIN compose : name \in ToSet(compose[i].mounts)}
      Mounted(name) == By(name) # {}
      Native(name) == ComposeVolume(compose[Least(By(name))], name)
      listed == Each(Where(native, Mounted), Native)
      New(v) == v.key \notin Keys(listed)
  IN  listed \o Where(mounts, New)

HasContainerService(services) == services \cap {"docker", "compose"} # {}
=============================================================================
