# ocp-air in TLA+

A verification project for `ocp-air`, the command line program in this
repository that builds an OpenShift cluster on NVIDIA Air with the Assisted
Installer. Source paths below are relative to `src/src/ocp_dsx_air/`.

## The system

Several short-lived `ocp-air` processes, each a sequential program, work on one
*lab* through two remote services that nobody locks. Nothing about the lab is
stored locally except caches, so every command starts by looking resources up
by exact name, decides from what it sees, and acts by id in a later call.
Recovery from any failure is: run the command again.

| Part | State it keeps | Operations | What is hard |
|---|---|---|---|
| Workflows (`core/workflows.py`) | locals of one run | `deploy`, `deploy --replace`, `destroy`; per resource a reconcile loop: look, decide, act, sleep | looks and acts are separate calls; a process may stop anywhere; deadlines; several users; names are not unique |
| Decisions (`core/decisions.py`, `core/contracts.py`) | none | `decide_cluster_action`, `decide_infraenv_action`, `decide_air_image_action`, `decide_air_simulation_action`, drift | order of the tests, statuses nobody tried |
| Assisted Installer (`adapters/assisted/`) | remote: cluster, InfraEnv, hosts | find, create, delete, ISO download, roles, install, credentials | asynchronous validation and installation; token expiry; staged files |
| NVIDIA Air (`adapters/air/`) | remote: images, simulations, jump-host service | find, create, upload, import, claim, start, shutdown, delete, capacity | accepted requests show late or are lost; images are owned by users; import and claim are two calls |
| Simulation lifecycle (`core/simulation_lifecycle.py`) | none | `start`, `stop`, `stop --wait`, `restart`, `status` | joins operations begun by others; waits against a status that lags behind |
| Artifacts (`core/iso.py`, `adapters/air/artifacts.py`, downloads of `adapters/assisted/adapter.py`) | ISO and blank-disk caches, metadata file, credential files | ensure, validate, rebuild, replace | files replaced one after the other; kills, power failures, other processes; stale identity |
| Jump host (`adapters/air/jump_host.py`, `core/jumphost.py`, `ensure_jump_host` and `find_jump_host` of the Air adapter) | remote: SSH service, password, hosts file | create, look up, probe, rotate password, merge and write the hosts file | a service listed late; a changed password with a lost answer; a truncated file |
| Host discovery (`_reconcile_hosts`, `_match_hosts` of the workflows, `core/polling.py`, `adapters/assisted/transport.py`) | remote: hosts with names, statuses, roles; access token | look, match hosts to nodes, assign roles, refresh the token | names that arrive late or are UUIDs; lists that are out of date; retries; other machines |
| Access (`cli/commands/access.py`, `tunnel.py`, `console.py`) | child processes, a local port | wait for the endpoint, run and supervise ssh and browser | an endpoint that changes during wake-up; exits in any order; ports others use |
| Recognition (`models/spec.py`, `models/resolution.py`, `core/builders.py`, the two `mapping.py`, drift of `core/decisions.py`) | the spec, which people edit | validate, make intents, send them, read resources back, compare | a field is checked, sent, read and compared in five places; services choose or hide values |

What makes the parts correct:

* a run, or any sequence of stopped and repeated runs, never duplicates a
  resource, never leaves one that `destroy` cannot find, installs at most once,
  and never mixes two versions of the spec in one installed lab;
* nobody else's images or simulations are deleted, started or claimed;
* a command that reports success has done what it says;
* a command given again in the end succeeds;
* `start`, `stop` and `restart` answer truthfully, whoever else operates the
  simulation;
* every machine gets its own role, and a lab where nothing is wrong is never
  refused for the order in which its hosts and their names appear;
* a session leaves no process behind, and works again after every boot;
* a spec that was accepted is not refused half way, a lab is recognised as its
  own spec's at every rerun, and one that is reported done is what was asked
  for.

## Modules

`AirStatus` has the status enumerations and the groups of statuses the code
tests; `Decisions` the four decide functions as operators, tests in the
code's order.

`LabServices` is the environment of a lab: the variables `clusters`,
`infraenvs`, `images` and `sims` hold the remote resources with the lab's names,
with what the services do by themselves (build an ISO, register hosts,
install, validate an upload, import, boot, shut down, delete, lose a start)
and what other people may do in the console (`Foreign...`). It is modelled from
what the adapters expect and from the fakes in `src/tests/support/deployment.py`,
and marked external.

`LabWorkflows` extends it with the processes. `me[c]` is the record of process
`c`: program counter, command, spec version and the locals the code carries
from call to call (ids of the cluster, InfraEnv and images, whether the start
was asked for, and so on); `iso[c]` and `creds[c]` are its caches. There is one
action per call of an adapter that looks or changes something: the reconcile
loops of `deploy_lab` (`ReconcileCluster`, `CreateCluster`, ... `AssignRoles`,
`EnsureJumpHost`, `ReconcileInstallation`, `StartInstallation`,
`DownloadCredentials`) and of `destroy_lab` (`SeekCluster` ... `ClusterGone`),
both with the preflight looks. `GiveUp` stops a process at a place of
`Breakable`; `Launch` gives the next command. `LabProperties` states the
properties, `MCLab` the instances, `LabWorkflows_proofs`, `LabSafety_proofs` and
`LabSolo_proofs` the theorems.

`PowerPromise` is an abstract specification of the lifecycle commands: what an
answer of each of them says about the power of the simulation, and what they may
ask of Air. `SimulationLifecycle` is the code: looks by name, requests by the id
of an earlier look, the waiting loops with their targets and allowed statuses,
Air's chain of statuses, the console, deletions and imports. It implements
`PowerPromise` under the mapping given there (`Power` of the status, `Call` of
the program counter). `since` and `quiet` are history variables: how far a
shutdown has come since a command was given, and whether anybody else acted.

`LocalCache` is what the processes of one person do to the files they share:
`file[f]` is what the disk, its metadata, an ISO and the two credential files
hold, and `kept[f]` what each may hold if the power fails now: a rename is
durable only once the directory is synced, and of a file that was not synced
before its rename a part (`Torn`) may be left. `me[c]` is the place of a process in
`ensure_blank_disk` (`Inspect`, `Compare`, `QemuInfo`, `Build`, `FsyncDisk`,
`ReplaceDisk`, `SyncDisk`, `Hash`, `FsyncMeta`, `ReplaceMeta`, `SyncMeta`),
`download_discovery_iso` (`Download`, `FsyncIso`, `ReplaceIso`) or
`download_credentials` (`StageKubeconfig`, `FsyncKubeconfig`, `StagePassword`,
`FsyncPassword`, `ReplaceKubeconfig`, `ReplacePassword`), with what it has read
and staged, and which of its staged files are synced. `Kill`, `PowerFailure` and `Damage` happen to it. It is separate
from `LabWorkflows`, where a cache is the id of what it was filled from.
`MCCache` has the instance, `LocalCache_proofs` the theorems.

`JumpHost` is the management node: the lookup and creation of its SSH service,
`ensure_ready` with probe, rotation and hosts file, and
`resolve_active_jump_host` of the access commands. `sim` is the simulation and
the number of its boot, `services` the SSH services with the boot their address
is for, `node` the password, key and hosts file of the node. `EmptyHosts` and
`FillHosts` are the two halves of a `tee`, `TeeFails` the `sudo -n tee` that fails
and is followed by a plain one, or the plain one that fails. `LabWorkflows`
takes all of `ensure_jump_host` as the step `EnsureJumpHost`. `hist` is history:
what has happened that the properties except. `JumpHost_proofs` has its theorems.

`AccessSessions` extends `JumpHost` with what `tunnel` and `console` do once they
have found the node. `session[c]` is the place, command and port of a session;
`ssh` the ssh processes with the address they use and whether they hold their
port, `browsers` the sessions with a browser, `taken` the ports of other
programs. `Open` is the look at the port and the launch of ssh, `AwaitOpen`,
`AwaitFails`, `AwaitTimesOut` the wait for `_port_open`, `Supervise` and `Wait`
the loops after it, `StopBrowser` and `StopSsh` the `finally`; `Interrupt` is
Ctrl-C, `Abandon` a kill. Its next-state relation runs beside that of
`JumpHost`, which `JumpHost_proofs` shows to be unharmed. `MCJumpHost` has
the instance of both.

`HostDiscovery` is `_reconcile_hosts`, which `LabWorkflows` takes as steps that
move all hosts. `hosts` are the service's records of machines, numbered in the
order of registration, each with the machine it is, its raw requested and
inventory names, status and role; `me[c]` is the place of a deployment, its token
and the host it is about to change. `Snapshot` converts a host as
`adapters/assisted/mapping.py` does; `Unexpected`, `Candidates`, `Ambiguous`,
`Matched` and `Match` are `_match_hosts`, `ApiHost` the second matching in
`_cluster_network_config`. `LookAtCluster`, `LookAtHosts`, `AssignRole` and
`TimeOut` are the loop; `NeedsToken`, `Exchange`, `ExchangeFails`, `Rejected`
and `Unavailable` the calls through `AssistedApiTransport`. The service
registers, describes, names, validates and installs hosts; `Meddle` is what does
not happen to a healthy lab, counted by the history variable `trouble`. `MCHosts`
has the instance, `HostDiscovery_proofs` the theorems.

`Recognition` is what a configuration is. `LabWorkflows` takes it to be a version
of the spec, and drift to be another version; `Recognition` shows from the code
that compares field by field when that is so. `file` is the person's spec, valid
or not; `Valid` are the validators, `ClusterIntent` and `SimulationIntent` the
intents, `ClusterParams` and `Metadata` the requests, `Sendable` and `Importable`
the checks before them, `ReportedCluster` and `Exported` (external) what the services make
of them, `NtpSources`, `NodeSnapshot` and `Readable` the read-back, and
`ClusterMatches` and `SimulationMatches` the comparison. Around these, one
deployment goes through the places where drift is decided (`ReconcileCluster`,
`ReconcileImage`, `ReconcileSimulation`, `ReconcileInstallation`) and may be
stopped at each. A resource is told by the spec it was made from; `EditFile`
replaces the spec, `EditSimulation` the nodes and links of the simulation but not
its metadata (`made` against `marked`). `touched` is history: one of these
happened since the lab was begun. `MCRecognition` has the specs,
`Recognition_proofs` the theorems.

### What is simplified

* A poll that sees nothing new is a stuttering step, and `TimeOut` is a look
  that finds the deadline passed: time is not counted. A deadline that passes
  during a changing call ends the run like `GiveUp` at the next place.
* Creating or deleting a cluster, InfraEnv or image takes effect before the call
  returns; starts, shutdowns and deletions of simulations are accepted first
  and show later. An upload is one step.
* In `LabWorkflows` all hosts of a lab move together (`none`, `found`,
  `assigned`). `HostDiscovery` matches them one by one; there the calls of one
  look are one call, addresses are left out, and the network configuration is
  the host its address is taken from.
* The capacity check and the start are one step in `LabWorkflows` and two in
  `SimulationLifecycle`; how capacity is computed is left out.
* The configuration of a resource is the version of the spec it was made from
  and the ids it refers to; drift is a difference in these.
* `LabWorkflows` has no host issues: `_reconcile_installation` gives up on a host
  that needs attention, which is `GiveUp` there. `HostDiscovery` has them for
  `_reconcile_hosts`.
* In `LabWorkflows` the refusal of an unmanaged simulation in `destroy` comes
  before the look at the discovery image instead of after; neither changes
  anything. The list of hosts after the credentials, for the report, is left out.
* `SimulationLifecycle` has one simulation of the name at a time.
* In `LocalCache` building and verifying a staged file are one step, because
  nobody else sees it, and syncing it is another; a disk has one of a few
  contents, and its digest is that content. A download of the ISO gives all of it
  or a part (`Short`), which is then a file like any other; those of the
  credentials give all or fail. Leftovers of killed processes, permissions and symbolic links
  are left out. A file has one content at a time and a power failure chooses one
  of those since the last sync of its directory.
* In `JumpHost` the calls of one lookup that change nothing are one step; a
  hosts file being written is empty until it is complete, and is otherwise the
  lines that are not ours and the network of our block. Whoever asks for a node
  that does not answer waits, so an `ssh` that fails and is tried again is a
  stuttering step. `console --print-only`, which does not test the address, is
  left out.
* In `AccessSessions` the look whether the port is free and the launch of ssh are
  one step, since ssh takes the port some time after both, and so are a signal
  and the end of the process. The ssh of an abandoned session counts from then on
  as another program. Finding a browser, its profile and the kubeconfig of the
  tunnel are left out.
* In `Recognition` one deployment works at a time, and the looks at which no
  drift is decided are left out. Fields that are copied and compared as they are
  share one field of the model (CPUs and memory; the domain with the cluster and
  service networks); an address is a pair of its network and the rest; a digest
  is what it is computed from; an NTP source is the list of the names it has
  between commas; of a text only whitespace around it is told. A pool has its
  names, which the code may also make from a count. Values of the wrong type in
  what a service returns are left out.

## Runs

| Run | What it asks | Bounds |
|---|---|---|
| `lab_solo` | One person gives any of the commands in any order, with two versions of the spec, stopped at any place: no duplicates, no orphans, one installation, only of a prepared lab, and success means done | `MaxId` 8: every resource once and most of them again after a destruction; failures of imports and installations on |
| `lab_two_users` | Two people with different Air identities and a third who makes or deletes resources of the lab's names: nobody's resources are touched, only complete images are booted, `deploy` deletes nothing | `MaxId` 6, one foreign action; processes stopped around creations, where it matters |
| `lab_resume` | `deploy` and `destroy` complete when given again and again | fair services, no failures; stopped anywhere but within the import |
| `resume_after_import` | the same stopped within the import: violated, a finding | as `lab_resume` |
| `reimport_after_start` | docs/lifecycle.md on a started installation: violated, a finding | one person |
| `destroy_refind` | docs/operations.md on unmanaged simulations: violated, a finding | two foreign actions |
| `lifecycle` | The lifecycle commands of two people implement `PowerPromise`, waits fail only through others, commands complete | two foreign actions: enough for a deletion followed by an import, the case of a stale id |
| `local_cache` | Two processes at the same files: a power failure leaves no part of a file under its name, a returned disk is verified, it is the same every time, the credentials are of one cluster | one process does everything, the other disks; two good disks and a bad one, two clusters; one power failure or damage |
| `partial_iso` | tests/test_adapters/test_assisted_iso.py on interrupted downloads: violated, a finding | one ISO |
| `jump_host` | One person deploys with either of two networks, one uses `tunnel` and `console`: the node handed on is ready, the hosts file keeps the other lines, there is one SSH service, sessions leave nothing running, `deploy` given again gets past the jump host, sessions given again work | two boots: an address from before a shutdown and one after; two services, the second being the error; one port, so that a leftover or another program is in the way |
| `host_discovery` | Two machines register, in either order, the worker being the first node of the spec: roles and the API's address go to the right machines, a healthy lab is never refused, discovery completes | three hosts: one more than nodes, so that a stray or a repeated machine fits; one thing goes wrong; one deployment, see below |
| `recognition` | Deployments of one of 170 specs, valid or not, stopped anywhere and given again, with the spec edited to any other or the simulation replaced by that of any other: an accepted spec is never refused later, and success means that simulation and cluster are as asked | one change per lab, any draft to any other: drift is a relation of two specs; each draft differs from a base in one thing (hardware, pools, links, cluster settings), with the invalid neighbours of each; two patches to choose from |

`MaxId` bounds the resources ever created, `MaxForeign` the acts of other people;
both only disable actions, as do `MaxMishaps` (power failures and damages),
`MaxBoots`, `MaxServices` and `MaxHosts`. `local_cache` uses the symmetry of the
good disks and of the clusters and checks safety only. The other runs use none:
their processes differ in user and commands, or liveness is checked.
`BreakableAssumption` lists where a process of `LabWorkflows` may be stopped; in
`LocalCache`, `SimulationLifecycle`, `JumpHost` and `HostDiscovery` it may be
stopped anywhere. `jump_host` has one deployer and `host_discovery` one
deployment; what overlapping ones do to the safety properties is covered by the
proofs, which are for any number.

The runs check deadlock everywhere: a resting process can always be given a
command.

### Fairness

`FairSpec` of `LabWorkflows` and of `SimulationLifecycle` assume weak fairness
of each process's steps, because every loop sleeps for a bounded time and looks
again until its deadline, and of the services' own steps, because the code
polls for them and nothing else would end a wait. Starting is assumed with
strong fairness: an accepted start may be lost to somebody else's allocation
any number of times but not always. In the lab a new command is given
again with weak fairness; in `SimulationLifecycle` that is an assumption of
the property (`WF_vars(Launch(c))`), since two people who restart the same
simulation for ever can starve each other. `LeftAlone` says that interruptions
end. For `restart` alone deadlines have to be long enough (`Patient`): given
again after a timeout in its second half it stops the simulation it has just
asked to start, which docs/operations.md avoids by sending the user to
`start`.

`FairSpec` of `JumpHost` assumes weak fairness of the steps of each process, of
the deadline of a deployment, which is what ends a wait for an address nobody
answers any more (`ensure_ready` looks at one address only), of commands being
given, and of what Air has accepted: the boot, the key, the address of a service
and its appearance in the list. `LeftAlone`, the premise of `DeployGetsReady` and
`AccessWorks`, says that from some time on nobody kills a process and a plain
`tee` that reaches the node succeeds. A kill leaves a process `killed`, whatever
it does by itself leaves it `idle`, so a deployment that fails by itself at every
rerun, at a rotation that can no longer succeed, a read or a deadline, is not
excused. No fairness is assumed of the deadline of access commands: `AccessWorks`
must not rest on that.

`AccessFairSpec` adds weak fairness of the steps of a session and of ssh, which
connects or exits. Nobody has to close a browser, press Ctrl-C or release a
port, and that ssh misses the 20 seconds is never relied on. `AccessWorks` is
conditional: interruptions end, no other program stays on the port, and there is
at most one SSH service.

`FairSpec` of `HostDiscovery` assumes weak fairness of the steps of a deployment
and of giving it again, of registration, inventory, validation and installation
of each host. It does not assume that a UUID is ever replaced by a name, nor that
a token lives longer than one call. `Calm` says that failures of calls and
validations that are taken back end. It excludes `TimeOut` as well, which is the
step an interruption is: time is not counted, so a deadline that may pass at one
look could pass at every one. A loop that goes on for ever or a refusal is not
excluded.

## Proofs

`LabWorkflows_proofs` proves for every number of processes, users, specs and
every bound:

* `TypeCorrect`;
* `StartsAreClaimed`: only simulations with the project's metadata are waiting
  to be started;
* `ClaimsAreOwn`: nobody else's simulation is ever given that metadata;
* `OwnershipKept`: images are deleted and uploaded to only by processes of
  their owner.

None of these is inductive. The invariant is

    LabInv == TypeOK /\ SimsInv /\ ImagesInv /\ \A c : Knows(c, me[c])

`SimsInv` and `ImagesInv` say that ids are below `nextId` and unique;
`Knows` says what the place of a process implies about the ids it remembers: at
`startSim` the simulation of that id, if it still exists, is managed; at
`claimSim` it is the process's own import; at `deleteImage` and `uploadImage`
the image of that id belongs to its user. That survives the steps of others
because ids are never reused and the owner of an image, the spec of a
simulation and the metadata are never taken back (`Keeps`). There is one
lemma per action (`...Good`), and `Initially`, `Inductive`, `Invariantly`
put them together. The assumptions used are `UserAssumption`,
`CommandsAssumption`, `SpecsAssumption` and `BoundsAssumption`.

`LabSafety_proofs` goes on from there and proves, as generally,
`BootsAreComplete`, `CredentialsAreInstalled` and `DeploySpares`. `SafetyInv`
adds to `LabInv` that what a process saw is still so when it acts: the images it
found complete still are, or are gone, until it has imported (`Sees`), and so is
the installed cluster whose credentials it is about to download; and that a
`deploy` never is at a place that deletes (`CommandOK`). `Lasts` says why the
steps of others do not disturb that: completeness of an image and installation
of a cluster are taken back only by a deletion, and ids are not used twice.

`LabSolo_proofs` proves everything `lab_solo` checks: `RerunsDuplicateNothing`,
`NothingIsOrphaned`, `DestroyedIsGone`, `DeployedIsUsable`, `InstallsOnce` and
`InstallsPreparedLabs`, for any specs, any `Breakable` places, any sequence of
commands and any `MaxId`. All assume

    Solo == (\A c, d \in Clients : c = d) /\ MaxForeign = 0

one process at a time on a lab nobody else operates. Without it these properties
are false: look and creation are separate calls with nothing to lock, so two
deployments may both create a cluster. What needs no such assumption is in the
two modules above. None of the six is inductive. That a run creates nothing
twice depends on what it saw before, that it has nothing orphaned on the order
in which it destroys, and that it reports a whole lab on what each phase it
skipped had found. The invariant is

    SoloInv == LabInv /\ Linked /\ foreign = 0
                 /\ \A c \in Clients : Place(me[c], creds[c])

`Linked` is how the resources hang together in every state a run can be stopped
in: an InfraEnv has its cluster, an image the InfraEnv it was made from, a
simulation that InfraEnv and both images, and a cluster is asked to install at
most once (`requests`). `Place` is what the place of the process tells: that it
looked before it creates (`LookedFirst`), which resources of its spec are there
after each phase (`DeployKnows`), what is gone after each step of a destruction
(`DestroyKnows`), and, until the next command, that a finished deployment is
`Usable`. TLC checked `SoloInv` as an invariant of the instance of `lab_solo`
before it was proved. There is one lemma per action, named for what the action
does (`...Looks`, `...Keeps`, `...Served`), and `SoloStep` puts them together.

`SimulationLifecycle_proofs` proves `PromiseHolds`, that the lifecycle commands
implement `PowerPromise`, and `LifecycleTypeCorrect`. `LifecycleInv` adds to
the types that a request is pending only in the status it is to leave, that
`since` is up to date, and `Relies`: the place of a process tells its command,
how far the shutdown it waits for has come, and that the simulation of its
remembered id, if it is still that one, is the project's. `Moving` covers every
step that only moves one process, `ElsewhereGood` every step of Air and other
people. `WaitsAreNotSurprised` is `NeverSurprised`: Air's lateness alone never
ends a wait in an error. `QuietInv` adds to `LifecycleInv` that, while nobody
else meddles, the simulation of a process that waits is on the `Course` from
what the command found or asked for to its target, and that a request still
pending leads the same way.

`LocalCache_proofs` proves, for any number of processes, contents, power
failures and damages, `DiskVerified`, that a disk `ensure_blank_disk` returns is
one `qemu-img` verified; `FilesWhole`, that a power failure never leaves a part of
a file under its final name; and `CacheTypeCorrect`. That a download which ended
early gives only a part of the ISO to begin with is finding 4, and `FilesWhole`
does not deny it. `CacheInv` says that nothing a file or a local may ever hold is
torn (`Parts`), because whoever is about to rename a file has synced it, that the metadata, now and after a power
failure, describes a verified disk (`FilesInv`), and what the place of a process
implies (`Knows`): what it is about to rename, or has hashed, was verified, and
the disk in place is verified when it is about to hash that. Another process
may replace the disk in between, but only by a verified one, and damage is
assumed to come while no process runs. `PairStaysTogether` and `DiskIsStable`
are about commands that do not overlap (`~hist.raced`). `PairInv` says that one
process runs at most, has staged both files from one cluster, and between the
two replacements holds the other half of what is in place; `DiskInv` that a disk
is built only while none was returned, that what was hashed is the disk in
place, and that the disk in place is the only one that a power failure could
leave, unless its directory is still to be synced.

`JumpHost_proofs` proves, for any number of deployers and users of the lab,
overlapping in any way, `HandedOnReady`, that a node a deployment hands on
accepts its key, has its password changed and resolves exactly the names of the
deployed network; `LinesSurvive`, that the hosts file keeps the lines that are
not ours except where `OthersLinesKept` says; `NeverTwoServices` and
`TypeCorrect`. `HostInv` consists of `BaseInv` (types, and what the place of a
process implies: past the probe the node accepts the key), `Single` (one
deployment at a time, unless `hist.raced`), `LinesHeld` (the lines are on the
node or with the process that writes the file) and `ServiceHeld` (there is one
service at most; while it is not listed its creator runs; and who is about to
create one saw that there is none).

The same module proves `SessionsBesideNode`, that every step of
`AccessSessions` is a step of `JumpHost` or leaves it alone, so that the theorems
above hold with sessions too; `SessionTypeCorrect`; and `SessionsCleanUp`,
that a session that is over has nothing running. A browser exists only at two
places of a session, and an ssh only at those from which every exit passes
`StopSsh`.

`HostDiscovery_proofs` proves, for any spec, any number of machines, hosts and
deployments, `RolesAreTheirOwn`, `ApiIsControlPlane`, `HealthyLabsAccepted` and
`TypeCorrect`. `DiscoveryInv` says that ids are unique and never reused, that a
host that was not renamed has the names and the role of its machine, and that
what a process remembers of a host stays true of the host with that id
(`Knows`). The lemmas on matching show that when all hosts are in place every
node has one candidate, which is no other node's, and that the second way the
code finds a host, by its name, agrees. `HealthyInv` holds while `trouble = 0`:
every machine has one record, in a status that belongs to the phase of the
cluster, and a process past discovery has seen all of them. `Excused` are the two
ways in which a healthy lab is refused all the same: somebody else began its
installation, or a new token was rejected too while a role was assigned.

`Recognition_proofs` proves, for any set of specs of any size, `TypeCorrect`,
`LabsAreRecognised`, `SimulationIsAsAsked` and `ClusterIsAsAsked`. The first half
is about the conversions: `OwnLabImportable` (what validation accepts passes the
checks before an import), `OwnSimulationMatches` and `OwnClusterMatches` (what is
read back of a spec's own lab matches it), `MatchedSimulation` and
`MatchedCluster` (what matches is as asked). NTP sources are joined by the
library's `FlattenSeq`, a recursive function: that it gives the list of servers
(`FlattenSingles`) is shown by looking at the least index where two functions
with its recursion equation would differ. `IInv` then says that there is one
resource of each kind, that a deployment past a place has what the place makes
(`Working`), that the lab is the file's own until something is touched (`Own`),
and that whoever waits for the installation has recognised the simulation
(`Checked`), which stays true because nothing is edited meanwhile.

Only model-checked: liveness (`DeployResumes`, `DestroyResumes`,
`CommandsComplete`, `DeployGetsReady`, `AccessWorks`, `DiscoveryCompletes`),
which is out of the prover's reach. Every other property a passing run checks is
stated by a theorem.

## Findings

1. A process stopped between the import of a simulation and the call that writes
   its metadata leaves a lab that `deploy` refuses from then on
   (`resume_after_import`).
2. `deploy` imports a new simulation for a cluster that is installing when it
   sees the old one while that is being deleted (`reimport_after_start`).
3. `destroy` checks ownership once but looks the simulation up by name again
   in its loop (`destroy_refind`).
4. A download of the ISO whose connection ends early is taken for complete,
   renamed into place and cached (`partial_iso`).

Worth knowing besides, without a run of its own:

* A `stop` repeated while Air still reports ACTIVE requests the shutdown again,
  though docs/operations.md:108-109 says that it does not submit a duplicate
  request (`RequestStop` of `SimulationLifecycle` is enabled again). Nothing in
  `PowerPromise` is broken by it.
* A disk that a killed process had renamed but not synced is later returned
  from the cache without a sync, so that a power failure may still replace it
  (the exception in `StableDisk`).
* Two deployments that overlap, or one killed right after it created the SSH
  service, can leave two services, and `find_jump_host` then refuses for ever
  (the exceptions in `OneService`).
* A write of the hosts file that is cut off loses the lines that are not ours
  (those in `OthersLinesKept`).
* The validators accept `architecture: unknown` (`models/spec.py` 121), though
  docs/spec-reference.md:84 supports `x86_64` and `arm64` only; the deployment is
  refused where the request for the cluster is made (`Sendable`,
  `adapters/assisted/mapping.py` 224). The run `recognition` has such a spec; the
  case is an exception of `LabsRecognised`.
* The validators accept the enumeration's `UNKNOWN` for `emulation_type` of
  nodes and PCI devices, which docs/spec-reference.md does not list; it is
  refused at the import, when cluster, InfraEnv and images exist. `uefi: true`
  with HOST emulation, if Air's export leaves firmware out, an NTP source with a
  comma in it, and whitespace around an NTP source or the domain, which reading
  back strips (`adapters/assisted/mapping.py` 53 and 115), are drift at every
  rerun. These are the other exceptions in `LabsRecognised` (`Carried`).
* Which node has which role is not compared, so two equal nodes of different
  pools may change places, and nodes added in the console are not seen (what
  `SimulationAsAsked` does not say).
* For a single node the deployment takes the API's address from the discovered
  host (`core/workflows.py` 786-819), while `tunnel` and `console` use the
  first API VIP of the spec (`cli/commands/tunnel.py` 108, `console.py` 257).

## Plan

Done: the core (workflows, decisions, services), the lifecycle with its abstract
specification, the caches, the jump host with the sessions through it, host
discovery with the access token, recognition, and the theorems above.

What could follow: the capacity arithmetic (`adapters/air/adapter.py` 102-206);
which safety properties of one process survive several people who only look or
only use the lab.

## Not modelled

Reading YAML and credentials, making names from a count, values of the wrong
type in API answers, the network configuration except for its API address,
progress output, `status`, and the legacy helpers of `core/simulation.py`, which
nothing calls: data without control. The Air transport only wraps errors. How
capacity is computed is arithmetic on lists whose answer the models take as
open. Two deployments of a new lab that race to create it both succeed in
creating and later looks refuse the lab as ambiguous: the code promises nothing
there, so duplicates are checked for one process at a time. Two processes that
request the same installation at once rely on the service to refuse one of them.
