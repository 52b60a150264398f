-------------------------------- MODULE Submit --------------------------------
(***************************************************************************)
(* POST /api/submit, from the credential to the runs it creates, beside the*)
(* registry an administrator edits, the workflow objects polled from app-lb*)
(* and the networks the runner pool serves, all of which change while a    *)
(* submit is between two of its awaits.                                    *)
(*                                                                         *)
(* A repository URL is its normalised form.  A file is [dir, name, on, wf]:*)
(* where it lies, whether it triggers on submit, and its workflow.         *)
(***************************************************************************)
EXTENDS WorkflowPlan

CONSTANTS
    None,
    Request, Url, Network, Token,
    Scenarios,              \* what the requests may carry and how often the world may
                            \* interfere: [payloads, budget: [admin, objects, pool, fault, crash]]
    ObjectSets,             \* the workflow objects app-lb may hold, over time
    InitRegistry,           \* the registrations and tokens there are at first
    DefaultPath,            \* CI_WORKFLOW_PATH
    DefaultNetwork,         \* the network the pool prefers
    RequireRepoToken        \* CI_REQUIRE_REPO_TOKEN

(* A row of ci_repo.                                                       *)
Registration == [id : Nat, url : Url, enabled : BOOLEAN,
                 network : Network \union {None}, path : {None, DefaultPath}]

(* The registrations there are at first are under their URLs, with ids of  *)
(* their own that were handed out.                                         *)
ASSUME RegistryAssumption ==
    /\ IsFiniteSet(Url)
    /\ InitRegistry.repos \in [Url -> Registration \union {None}]
    /\ None \notin Registration
    /\ \A u, v \in {w \in Url : InitRegistry.repos[w] # None} :
           /\ InitRegistry.repos[u].url = u
           /\ InitRegistry.repos[u].id \in 1 .. Cardinality(Url)
           /\ InitRegistry.repos[u].id = InitRegistry.repos[v].id => u = v

(* app-lb keys its objects by id, and a directory its files by name.       *)
DistinctObjects(os) ==
    /\ DOMAIN os \subseteq Nat
    /\ \A i, j \in DOMAIN os : os[i].id = os[j].id => i = j

DistinctFiles(fs) ==
    /\ DOMAIN fs \subseteq Nat
    /\ \A k, l \in DOMAIN fs : fs[k].dir = fs[l].dir /\ fs[k].name = fs[l].name => k = l

ASSUME InputAssumption ==
    /\ \A os \in ObjectSets : DistinctObjects(os)
    /\ \A s \in Scenarios, r \in Request : DistinctFiles(s.payloads[r].files)

VARIABLES
    registry,   \* ci_repo by URL: None or [id, url, enabled, network, path]
    tokens,     \* ci_repo_token: None before it is minted, or [repo, live]
    lastId,     \* registration ids handed out
    objects,    \* what app-lb holds (external)
    cache,      \* Workflows::cache: [loaded, objects]
    serving,    \* the networks of the runner pool's snapshot
    reqs,       \* the submits in flight and their answers
    trees,      \* workspaces whose tree has been materialised
    runs,       \* ci_run
    left        \* what is left of the budget

vars == <<registry, tokens, lastId, objects, cache, serving, reqs, trees, runs, left>>
admin == <<registry, tokens, lastId>>
world == <<objects, cache, serving>>

NewRequest(payload) ==
    [pc |-> "new", payload |-> payload, repo |-> None, changes |-> Unknown, sources |-> <<>>,
     todo |-> {}, network |-> None, made |-> 0, skipped |-> {}]

Init ==
    /\ registry = InitRegistry.repos
    /\ tokens = InitRegistry.tokens
    /\ lastId = Cardinality(Url)
    /\ objects \in ObjectSets
    /\ cache \in {[loaded |-> FALSE, objects |-> <<>>], [loaded |-> TRUE, objects |-> objects]}
    /\ serving = Network
    /\ \E s \in Scenarios :
           /\ reqs = [r \in Request |-> NewRequest(s.payloads[r])]
           /\ left = s.budget
    /\ trees = {}
    /\ runs = {}

Final == {"refused", "failed", "accepted", "lost"}
SetReq(r, rec) == reqs' = [reqs EXCEPT ![r] = rec]
Answer(r, pc) == SetReq(r, [reqs[r] EXCEPT !.pc = pc])
Spend(what) == left[what] > 0 /\ left' = [left EXCEPT ![what] = @ - 1]

-----------------------------------------------------------------------------
(* web/mod.rs: authenticate_submit and the head of submit.                 *)

Rows == {registry[u] : u \in {v \in Url : registry[v] # None}}
Live(id) == \E row \in Rows : row.id = id
RowOf(id) == CHOOSE row \in Rows : row.id = id

(* The registration a request acts for: the token's, or, for the shared    *)
(* secret, the one its URL names.  Paused registrations count for neither. *)
TokenRepo(t) ==
    IF t # None /\ tokens[t] # None /\ tokens[t].live
       /\ Live(tokens[t].repo) /\ RowOf(tokens[t].repo).enabled
    THEN RowOf(tokens[t].repo) ELSE None

UrlRepo(u) == IF u # None /\ registry[u] # None /\ registry[u].enabled THEN registry[u] ELSE None

Authenticate(r) ==
    LET p == reqs[r].payload
        repo == IF p.cred = "token" THEN TokenRepo(p.token) ELSE UrlRepo(p.url)
        known == IF p.cred = "token" THEN repo # None ELSE p.cred = "shared" /\ ~RequireRepoToken
        scoped == repo = None \/ p.url \in {None, repo.url}
    IN  /\ reqs[r].pc = "new"
        /\ IF known /\ scoped THEN SetReq(r, [reqs[r] EXCEPT !.pc = "authenticated", !.repo = repo])
           ELSE Answer(r, "refused")
        /\ UNCHANGED <<admin, world, trees, runs, left>>

(* The database cannot be read: a token is an error of the server's, the   *)
(* shared secret goes on without a registration.                           *)
AuthenticateUnread(r) ==
    /\ reqs[r].pc = "new"
    /\ reqs[r].payload.cred # "none"
    /\ Spend("fault")
    /\ Answer(r, IF reqs[r].payload.cred = "token" THEN "failed" ELSE "authenticated")
    /\ UNCHANGED <<admin, world, trees, runs>>

-----------------------------------------------------------------------------
(* Dispatcher::submit up to its loop: materialize, changed_paths, and the  *)
(* sources, read from one snapshot of the objects.                         *)

(* Without a parent to diff against in the submitted history, no answer.   *)
ChangedPaths_nothing_known(p) == IF p.history THEN Known(p.diff) ELSE Known({})

ChangedPaths(p) == IF p.history THEN Known(p.diff) ELSE Unknown

(* The places of the objects a submit is for: the one it names, or those   *)
(* of its repository.                                                      *)
Matched(p, repo) ==
    LET url == IF repo = None THEN p.url ELSE repo.url
        wanted(o) == IF p.workflow # None THEN o.id = p.workflow ELSE o.enabled /\ o.url = url /\ url # None
    IN  {i \in DOMAIN cache.objects : wanted(cache.objects[i])}

Or(x, y) == IF x # None THEN x ELSE y

SourcesOf(p, repo) ==
    LET matched == Matched(p, repo)
        repoNetwork == IF repo = None THEN None ELSE repo.network
        repoPath == IF repo = None THEN None ELSE repo.path
    IN  IF matched = {}
        THEN <<[id |-> None, path |-> Or(repoPath, DefaultPath), network |-> repoNetwork]>>
        ELSE [i \in matched |->
                [id |-> cache.objects[i].id, path |-> cache.objects[i].path,
                 network |-> Or(cache.objects[i].network, repoNetwork)]]

(* trigger::find_workflows for each source: which source and which file of *)
(* the tree.                                                               *)
FilesOf(p, sources) ==
    {e \in (DOMAIN sources) \X (DOMAIN p.files) : p.files[e[2]].dir = sources[e[1]].path}

(* git failing is no answer either.                                        *)
Prepare(r) ==
    LET q == reqs[r]
        sources == SourcesOf(q.payload, q.repo)
        unknownId == q.payload.workflow # None /\ Matched(q.payload, q.repo) = {} /\ cache.loaded
    IN  /\ q.pc = "authenticated"
        /\ trees' = trees \union {<<r, 0>>}
        /\ IF unknownId THEN Answer(r, "failed") /\ UNCHANGED left
           ELSE \E git \in BOOLEAN :
                    /\ IF git THEN UNCHANGED left ELSE Spend("fault")
                    /\ SetReq(r, [q EXCEPT !.pc = "files", !.sources = sources,
                                           !.todo = FilesOf(q.payload, sources),
                                           !.changes = IF git THEN ChangedPaths(q.payload) ELSE Unknown])
        /\ UNCHANGED <<admin, world, runs>>

(* A corrupt or oversized archive, a full disk.                            *)
MaterializeFails(r) ==
    /\ reqs[r].pc = "authenticated"
    /\ Spend("fault")
    /\ Answer(r, "failed")
    /\ UNCHANGED <<admin, world, trees, runs>>

-----------------------------------------------------------------------------
(* The loop over the files.                                                *)

(* Source by source, and file by file within one.                          *)
Before(d, e) == d[1] < e[1] \/ (d[1] = e[1] /\ d[2] <= e[2])
First(todo) == CHOOSE d \in todo : \A e \in todo : Before(d, e)

AtFile(r) == reqs[r].pc = "files" /\ reqs[r].todo # {}
Entry(r) == First(reqs[r].todo)
File(r) == reqs[r].payload.files[Entry(r)[2]]
Source(r) == reqs[r].sources[Entry(r)[1]]
Rest(r) == reqs[r].todo \ {Entry(r)}
Admitted(r) == Admits(File(r).wf.filter, reqs[r].payload.branch, reqs[r].changes)

(* A workflow for another trigger.                                         *)
Pass_ends_the_loop(r) ==
    /\ AtFile(r) /\ Parses(File(r).wf) /\ ~File(r).on
    /\ SetReq(r, [reqs[r] EXCEPT !.todo = {}])
    /\ UNCHANGED <<admin, world, trees, runs, left>>

Pass(r) ==
    /\ AtFile(r) /\ Parses(File(r).wf) /\ ~File(r).on
    /\ SetReq(r, [reqs[r] EXCEPT !.todo = Rest(r)])
    /\ UNCHANGED <<admin, world, trees, runs, left>>

Decline(r) ==
    /\ AtFile(r) /\ Parses(File(r).wf) /\ File(r).on /\ ~Admitted(r)
    /\ SetReq(r, [reqs[r] EXCEPT !.todo = Rest(r),
                              !.skipped = @ \union {[src |-> Source(r), file |-> File(r)]}])
    /\ UNCHANGED <<admin, world, trees, runs, left>>

(* assign_network: the source's network, else the pool's default one.      *)
Stamped(r) ==
    Or(Source(r).network,
       IF DefaultNetwork \in serving \/ serving = {} THEN DefaultNetwork
       ELSE CHOOSE n \in serving : TRUE)

Plannable(r) ==
    Parses(File(r).wf) /\ (File(r).on /\ Admitted(r) => Build(File(r).wf) # Stuck /\ Stamped(r) \in serving)

(* One file that does not parse or plan ends the submit, whatever it has   *)
(* already started.                                                        *)
Reject(r) ==
    /\ AtFile(r) /\ ~Plannable(r)
    /\ Answer(r, "failed")
    /\ UNCHANGED <<admin, world, trees, runs, left>>

Accept(r) ==
    /\ AtFile(r) /\ Plannable(r) /\ File(r).on /\ Admitted(r)
    /\ SetReq(r, [reqs[r] EXCEPT !.pc = "copying", !.network = Stamped(r)])
    /\ UNCHANGED <<admin, world, trees, runs, left>>

(* The first run takes the seed workspace, every other a copy of its own.  *)
WorkspaceOf_the_seed(r) == <<r, 0>>

WorkspaceOf(r) == <<r, reqs[r].made>>

CopyTree(r) ==
    /\ reqs[r].pc = "copying"
    /\ trees' = trees \union {WorkspaceOf(r)}
    /\ Answer(r, "creating")
    /\ UNCHANGED <<admin, world, runs, left>>

CreateRun_unchecked(r) ==
    LET q == reqs[r] IN
    /\ q.pc = "creating"
    /\ runs' = runs \union {[req |-> r, ws |-> WorkspaceOf(r), src |-> Source(r), file |-> File(r).name,
                             repo |-> IF q.repo = None THEN None ELSE q.repo.id, network |-> q.network]}
    /\ Answer(r, "advancing")
    /\ UNCHANGED <<admin, world, trees, left>>

(* store.create_run: the foreign key refuses a registration deleted since. *)
CreateRun(r) ==
    LET q == reqs[r] IN
    /\ q.pc = "creating"
    /\ IF q.repo = None \/ Live(q.repo.id)
       THEN /\ runs' = runs \union {[req |-> r, ws |-> WorkspaceOf(r), src |-> Source(r),
                                     file |-> File(r).name,
                                     repo |-> IF q.repo = None THEN None ELSE q.repo.id,
                                     network |-> q.network]}
            /\ Answer(r, "advancing")
       ELSE Answer(r, "failed") /\ UNCHANGED runs
    /\ UNCHANGED <<admin, world, trees, left>>

(* advance_run returns: the run is the submit's to report.                 *)
Advanced(r) ==
    /\ reqs[r].pc = "advancing"
    /\ SetReq(r, [reqs[r] EXCEPT !.pc = "files", !.todo = Rest(r), !.made = @ + 1])
    /\ UNCHANGED <<admin, world, trees, runs, left>>

(* Disk, database or bus fail at one of the loop's awaits.                 *)
StepFails(r) ==
    /\ reqs[r].pc \in {"files", "copying", "creating", "advancing"}
    /\ Spend("fault")
    /\ Answer(r, "failed")
    /\ UNCHANGED <<admin, world, trees, runs>>

Finish(r) ==
    /\ reqs[r].pc = "files" /\ reqs[r].todo = {}
    /\ Answer(r, IF reqs[r].made = 0 /\ reqs[r].skipped = {} THEN "failed" ELSE "accepted")
    /\ UNCHANGED <<admin, world, trees, runs, left>>

-----------------------------------------------------------------------------
(* The repositories page.                                                  *)

(* Store::register_repo: the same URL again rewrites the row, keeping its  *)
(* id, its tokens and whether it is paused.                                *)
register_repo(u, network, path) ==
    LET again == registry[u] # None
        id == IF again THEN registry[u].id ELSE lastId + 1
    IN  /\ registry' = [registry EXCEPT ![u] = [id |-> id, url |-> u, network |-> network, path |-> path,
                                                enabled |-> IF again THEN registry[u].enabled ELSE TRUE]]
        /\ lastId' = IF again THEN lastId ELSE lastId + 1

(* Store::delete_repo: tokens go with the row, runs stay and forget it.  A *)
(* token's id is never minted again, so one that is gone stays as one that *)
(* lets nobody in.                                                         *)
delete_repo(u) ==
    /\ registry' = [registry EXCEPT ![u] = None]
    /\ tokens' = [t \in Token |->
                    IF tokens[t] # None /\ tokens[t].repo = registry[u].id
                    THEN [tokens[t] EXCEPT !.live = FALSE] ELSE tokens[t]]
    /\ runs' = {IF run.repo = registry[u].id THEN [run EXCEPT !.repo = None] ELSE run : run \in runs}

create_repo_token(u, t) == tokens' = [tokens EXCEPT ![t] = [repo |-> registry[u].id, live |-> TRUE]]

revoke_repo_token(t) ==
    /\ tokens[t] # None /\ tokens[t].live
    /\ tokens' = [tokens EXCEPT ![t].live = FALSE]

(* A network must be served at the moment it is assigned.                  *)
Assignable(network) == network = None \/ network \in serving

Register(u, network, path) ==
    /\ Assignable(network)
    /\ Spend("admin")
    /\ register_repo(u, network, path)
    /\ UNCHANGED <<tokens, world, reqs, trees, runs>>

SetNetwork(u, network) ==
    /\ registry[u] # None
    /\ Assignable(network)
    /\ Spend("admin")
    /\ registry' = [registry EXCEPT ![u].network = network]
    /\ UNCHANGED <<tokens, lastId, world, reqs, trees, runs>>

SetEnabled(u, enabled) ==
    /\ registry[u] # None
    /\ Spend("admin")
    /\ registry' = [registry EXCEPT ![u].enabled = enabled]
    /\ UNCHANGED <<tokens, lastId, world, reqs, trees, runs>>

Delete(u) ==
    /\ registry[u] # None
    /\ Spend("admin")
    /\ delete_repo(u)
    /\ UNCHANGED <<lastId, world, reqs, trees>>

Mint(u, t) ==
    /\ registry[u] # None /\ tokens[t] = None
    /\ Spend("admin")
    /\ create_repo_token(u, t)
    /\ UNCHANGED <<registry, lastId, world, reqs, trees, runs>>

Revoke(t) ==
    /\ Spend("admin")
    /\ revoke_repo_token(t)
    /\ UNCHANGED <<registry, lastId, world, reqs, trees, runs>>

-----------------------------------------------------------------------------
(* The world around.                                                       *)

ObjectsChange ==
    /\ Spend("objects")
    /\ objects' \in ObjectSets \ {objects}
    /\ UNCHANGED <<admin, cache, serving, reqs, trees, runs>>

(* Workflows::refresh; a failed poll keeps the set it has.                 *)
RefreshObjects ==
    /\ cache' = [loaded |-> TRUE, objects |-> objects]
    /\ cache' # cache
    /\ UNCHANGED <<admin, objects, serving, reqs, trees, runs, left>>

PoolChanges ==
    /\ Spend("pool")
    /\ serving' \in (SUBSET Network) \ {serving}
    /\ UNCHANGED <<admin, objects, cache, reqs, trees, runs>>

(* The process dies: submits in flight get no answer, the cache starts     *)
(* over (main.rs polls once before it serves; that may fail).              *)
Crash ==
    /\ Spend("crash")
    /\ reqs' = [r \in Request |->
                 IF reqs[r].pc \in Final \union {"new"} THEN reqs[r] ELSE [reqs[r] EXCEPT !.pc = "lost"]]
    /\ cache' \in {[loaded |-> FALSE, objects |-> <<>>], [loaded |-> TRUE, objects |-> objects]}
    /\ UNCHANGED <<admin, objects, serving, trees, runs>>

Handle(r) ==
    \/ Authenticate(r) \/ AuthenticateUnread(r) \/ Prepare(r) \/ MaterializeFails(r)
    \/ Pass(r) \/ Decline(r) \/ Reject(r) \/ Accept(r)
    \/ CopyTree(r) \/ CreateRun(r) \/ Advanced(r) \/ StepFails(r) \/ Finish(r)

Administer ==
    \/ \E u \in Url, n \in Network \union {None}, p \in {None, DefaultPath} : Register(u, n, p)
    \/ \E u \in Url, n \in Network \union {None} : SetNetwork(u, n)
    \/ \E u \in Url, e \in BOOLEAN : SetEnabled(u, e)
    \/ \E u \in Url : Delete(u)
    \/ \E u \in Url, t \in Token : Mint(u, t)
    \/ \E t \in Token : Revoke(t)

Next ==
    \/ \E r \in Request : Handle(r)
    \/ Administer \/ ObjectsChange \/ RefreshObjects \/ PoolChanges \/ Crash

Spec == Init /\ [][Next]_vars

-----------------------------------------------------------------------------
(* Properties.                                                             *)

RunsFor(r, s, f) == {run \in runs : run.req = r /\ run.src = s /\ run.file = f.name}

(* An accepted submit leaves no workflow file out: whatever each source of *)
(* the submit finds in the tree and triggers on submit has exactly one run,*)
(* or was declined and is reported as a warning, never both.               *)
AcceptedAccountsForAll ==
    \A r \in Request : reqs[r].pc = "accepted" =>
        \A i \in DOMAIN reqs[r].sources, k \in DOMAIN reqs[r].payload.files :
            LET s == reqs[r].sources[i]
                f == reqs[r].payload.files[k]
                declined == [src |-> s, file |-> f] \in reqs[r].skipped
            IN  f.dir = s.path /\ f.on =>
                    Cardinality(RunsFor(r, s, f)) = (IF declined THEN 0 ELSE 1)

(* A workflow that stays silent was really not concerned: with the whole   *)
(* truth about what the commit changed, its filter would have declined too.*)
(* A tarball, a root commit, an over-long diff or a failing git only ever  *)
(* make it build.                                                          *)
NeverDeclinedWrongly ==
    \A r \in Request : \A d \in reqs[r].skipped :
        ~Admits(d.file.wf.filter, reqs[r].payload.branch,
                [known |-> TRUE, paths |-> reqs[r].payload.diff])

(* No two runs, of one submit or of two, share a workspace, and a run has  *)
(* its whole tree on disk from the moment it exists.                       *)
OwnTree ==
    /\ \A x \in runs : x.ws \in trees
    /\ \A x, y \in runs : x.ws = y.ws => x = y

(* Deleting a registration, before, during or after a submit, leaves no run*)
(* that names a registration which is not there.                           *)
NoDanglingRun == \A x \in runs : x.repo = None \/ Live(x.repo)

TypeOK ==
    /\ lastId \in Nat
    /\ registry \in [Url -> Registration \union {None}]
    /\ \A u \in Url : registry[u] # None => registry[u].url = u /\ registry[u].id \in 1 .. lastId
    /\ serving \subseteq Network
    /\ \A r \in Request :
           /\ reqs[r].pc \in Final \union
                  {"new", "authenticated", "files", "copying", "creating", "advancing"}
           /\ reqs[r].made \in Nat
    /\ trees \subseteq Request \X Nat
    /\ \A x \in runs : x.req \in Request /\ x.ws \in Request \X Nat /\ x.network \in Network

-----------------------------------------------------------------------------
(* What the documents say of this code, and it does not do.                *)

(* "A submit naming a network this instance does not serve is refused at   *)
(* the client [...] The alternative is a run that exists" (README): when a *)
(* file is refused for its network, its submit has started no run.  But a  *)
(* file is placed when its turn comes, by the pool of that moment, and the *)
(* files before it have their runs by then.                                *)
RefusedStartsNothing ==
    [][\A r \in Request :
           /\ AtFile(r) /\ Parses(File(r).wf) /\ File(r).on /\ Admitted(r) /\ Build(File(r).wf) # Stuck
           /\ Stamped(r) \notin serving
           /\ reqs'[r].pc = "failed"
           => \A x \in runs : x.req # r]_vars
=============================================================================
