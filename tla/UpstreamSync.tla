---------------------------- MODULE UpstreamSync ----------------------------
(* upstream-sync.mjs: the checkpoint of what a fork has integrated from its *)
(* upstream.  "assess" freezes an upstream target in a new change           *)
(* directory and rewrites the root state; "record-integration" proves from  *)
(* the commit graph that the frozen target was merged and moves the         *)
(* checkpoint.  Each file is replaced atomically and no file is locked, so  *)
(* runs of the tool interleave between their file operations, and a run     *)
(* may die between two of them.  Commits are numbered in order of creation. *)
EXTENDS Naturals, Sequences, FiniteSets, FiniteSetsExt

CONSTANTS
  Repositories,   \* the ids of the repository map
  Tools,          \* runs of the program
  Limits,         \* bounds: runs alive, commits created, commands started, mishaps
  Null            \* no checkpoint, no change, no merge

ASSUME NullIsNoCheckpoint ==
  Null \notin [integrated : Nat, merge : Nat \cup {Null}, observed : Nat]

VARIABLES
  graph,      \* the commits: parents, history (itself included), first-parent line
  refs,       \* per repository: product, upstream (tracking), mirror, and the remote's branch
  map,        \* the repository map's version, its sha256
  root,       \* state.json of the state root: current change and the checkpoints
  changes,    \* state.json of each published change directory
  run,        \* per tool run: where it is and what it has read
  limit,      \* the bounds of this behaviour
  commands,   \* commands started
  mishaps,    \* rewrites, resets, mirror pushes, edits and deaths so far
  untroubled  \* history: no run died, and none ran beside another, so far

upstreamVars == <<graph, refs, map, root, changes, run, limit, commands, mishaps, untroubled>>

Commits == DOMAIN graph
IsAncestor(a, d) == a \in graph[d].history
MergeParents(c) == {graph[c].parents[i] : i \in 2..Len(graph[c].parents)}

\* git merge-base --all: the common ancestors no other common ancestor reaches.
MergeBases(a, b) ==
  LET common == graph[a].history \cap graph[b].history
  IN {c \in common : \A d \in common \ {c} : ~IsAncestor(c, d)}

\* The commit that Commit(parents) appends to the graph.
NewCommit(parents) ==
  LET new == Len(graph) + 1
      olds == {parents[i] : i \in DOMAIN parents}
  IN [parents |-> parents,
      history |-> {new} \cup UNION {graph[c].history : c \in olds},
      line |-> {new} \cup IF parents = <<>> THEN {} ELSE graph[parents[1]].line]

-----------------------------------------------------------------------------
\* The repositories around the tool.

Commit(repo, ref, parents) ==
  /\ Len(graph) < limit.commits
  /\ graph' = Append(graph, NewCommit(parents))
  /\ refs' = [refs EXCEPT ![repo][ref] = Len(graph) + 1]
  /\ UNCHANGED <<limit, map, root, changes, run, commands, untroubled>>

Mishap == mishaps < limit.mishaps /\ mishaps' = mishaps + 1

UpstreamCommits(repo) ==
  /\ Commit(repo, "remote", <<refs[repo].remote>>)
  /\ UNCHANGED mishaps

\* A force push: the branch restarts from an older commit or from none.
UpstreamRewrites(repo) ==
  /\ Mishap
  /\ \E parents \in {<<>>} \cup {<<c>> : c \in graph[refs[repo].remote].history \ {refs[repo].remote}} :
       Commit(repo, "remote", parents)

ProductMerges(repo) ==
  /\ UNCHANGED mishaps
  /\ \E c \in graph[refs[repo].upstream].history \ graph[refs[repo].product].history :
       Commit(repo, "product", <<refs[repo].product, c>>)

RefMoves(repo, ref, c) ==
  /\ Mishap
  /\ refs' = [refs EXCEPT ![repo][ref] = c]
  /\ UNCHANGED <<limit, graph, map, root, changes, run, commands, untroubled>>

\* git reset on the product branch drops its last commit.
ProductResets(repo) ==
  /\ graph[refs[repo].product].parents # <<>>
  /\ RefMoves(repo, "product", graph[refs[repo].product].parents[1])

MirrorMoves(repo) ==
  /\ refs[repo].mirror # refs[repo].upstream
  /\ RefMoves(repo, "mirror", refs[repo].upstream)

EditMap ==
  /\ Mishap /\ map = 1 /\ map' = 2
  /\ UNCHANGED <<limit, graph, refs, root, changes, run, commands, untroubled>>

-----------------------------------------------------------------------------
\* What a run computes.

\* A checkpoint that the graph no longer supports stops the run.
SavedIsValid(saved, product, upstream) ==
  /\ IsAncestor(saved.integrated, product)
  /\ IsAncestor(saved.integrated, upstream)
  /\ saved.merge # Null =>
       /\ IsAncestor(saved.merge, product)
       /\ saved.integrated \in MergeParents(saved.merge)

\* The first checkpoint: the newest merge on the product's first-parent line
\* whose merged parent upstream still has, or the only merge base.
Bootstrap(product, upstream, baseline) ==
  LET merges == {c \in graph[product].line \ graph[baseline].history :
                   \E p \in MergeParents(c) : IsAncestor(p, upstream)}
  IN IF merges # {}
     THEN LET newest == Max(merges)
          IN [integrated |-> CHOOSE p \in MergeParents(newest) : IsAncestor(p, upstream),
              merge |-> newest]
     ELSE [integrated |-> CHOOSE c \in MergeBases(product, upstream) : TRUE,
           merge |-> Null]

Refused(repo, saved) ==
  LET r == refs[repo]
  IN \/ ~IsAncestor(r.baseline, r.product) \/ ~IsAncestor(r.baseline, r.upstream)
     \/ ~IsAncestor(r.mirror, r.upstream)
     \/ saved # Null /\ ~SavedIsValid(saved, r.product, r.upstream)
     \/ Cardinality(MergeBases(r.product, r.upstream)) # 1

SavedEntry(state, repo) ==
  IF repo \in DOMAIN state.repositories THEN state.repositories[repo] ELSE Null

Collected(repo, saved) ==
  LET r == refs[repo]
      at == IF saved # Null THEN saved ELSE Bootstrap(r.product, r.upstream, r.baseline)
  IN [integrated |-> at.integrated, merge |-> at.merge, observed |-> r.upstream]

\* The change state: the repositories whose upstream is ahead of the checkpoint.
FrozenChange(next) ==
  LET pending == {repo \in Repositories : next[repo].integrated # next[repo].observed}
  IN [map |-> map,
      pending |-> [repo \in pending |->
                     [target |-> next[repo].observed, integrated |-> next[repo].integrated,
                      merge |-> Null]]]

\* chooseChange: the topic's name, or the first numbered one that is free.
UnusedName == Min((1..Cardinality(DOMAIN changes) + 1) \ DOMAIN changes)

-----------------------------------------------------------------------------
\* A run.

Idle == [pc |-> "idle"]
Running == {t \in Tools : run[t].pc # "idle"}

Start(t, state) ==
  /\ t \in limit.tools /\ run[t] = Idle /\ commands < limit.commands
  /\ commands' = commands + 1
  /\ run' = [run EXCEPT ![t] = state]
  /\ untroubled' = (untroubled /\ Running = {})

Ends(t) == run' = [run EXCEPT ![t] = Idle]

AssessBegins(t) ==
  /\ \E fetch \in BOOLEAN :
       Start(t, [pc |-> IF fetch THEN "fetch" ELSE "collect", root |-> root])
  /\ UNCHANGED <<limit, mishaps, graph, refs, map, root, changes>>

\* git fetch per repository; one that fails leaves the cached ref: "stale".
AssessFetches(t) ==
  /\ run[t].pc = "fetch"
  /\ \E fetched \in SUBSET Repositories :
       refs' = [repo \in Repositories |->
                  IF repo \in fetched THEN [refs[repo] EXCEPT !.upstream = refs[repo].remote]
                  ELSE refs[repo]]
  /\ run' = [run EXCEPT ![t].pc = "collect"]
  /\ UNCHANGED <<limit, mishaps, graph, map, root, changes, commands, untroubled>>

\* Everything is read from the commit graph before anything is written; an
\* error or --dry-run ends the run here.
AssessCollects(t) ==
  /\ run[t].pc = "collect"
  /\ LET saved(repo) == SavedEntry(run[t].root, repo)
         next == [repo \in Repositories |-> Collected(repo, saved(repo))]
     IN \/ Ends(t)
        \/ /\ \A repo \in Repositories : ~Refused(repo, saved(repo))
           /\ run' = [run EXCEPT ![t] =
                        [pc |-> "publish", name |-> UnusedName, next |-> next]]
  /\ UNCHANGED <<limit, mishaps, graph, refs, map, root, changes, commands, untroubled>>

\* The temporary directory is renamed to the change's name unless it exists.
AssessPublishes(t) ==
  /\ run[t].pc = "publish"
  /\ IF run[t].name \in DOMAIN changes
     THEN Ends(t) /\ UNCHANGED changes
     ELSE /\ changes' = [n \in DOMAIN changes \cup {run[t].name} |->
                           IF n = run[t].name THEN FrozenChange(run[t].next) ELSE changes[n]]
          /\ run' = [run EXCEPT ![t].pc = "root"]
  /\ UNCHANGED <<limit, mishaps, graph, refs, map, root, commands, untroubled>>

AssessWritesRoot(t) ==
  /\ run[t].pc = "root"
  /\ root' = [current |-> run[t].name, repositories |-> run[t].next]
  /\ Ends(t)
  /\ UNCHANGED <<limit, mishaps, graph, refs, map, changes, commands, untroubled>>

\* Mutant: the frozen target need not contain the checkpoint.
Provable_Regress(repo, merge, upstream, entry, saved) ==
  /\ IsAncestor(merge, refs[repo].product)
  /\ Len(graph[merge].parents) >= 2
  /\ upstream \in MergeParents(merge)
  /\ IsAncestor(upstream, refs[repo].upstream)
  /\ entry.target = upstream

\* Mutant: the commit's ancestry is checked, not its exact parents.
Provable_Ancestor(repo, merge, upstream, entry, saved) ==
  /\ IsAncestor(merge, refs[repo].product)
  /\ Len(graph[merge].parents) >= 2
  /\ IsAncestor(upstream, merge)
  /\ IsAncestor(upstream, refs[repo].upstream)
  /\ entry.target = upstream
  /\ IsAncestor(saved.integrated, upstream)

\* The merge and the merged commit must satisfy the graph exactly.
Provable(repo, merge, upstream, entry, saved) ==
  /\ IsAncestor(merge, refs[repo].product)
  /\ Len(graph[merge].parents) >= 2
  /\ upstream \in MergeParents(merge)
  /\ IsAncestor(upstream, refs[repo].upstream)
  /\ entry.target = upstream
  /\ IsAncestor(saved.integrated, upstream)

\* record-integration reads both states and proves its arguments; any failed
\* check ends it with nothing written, which is a step that changes nothing.
\* What it reads of the files and of git (619-646) it reads in this one step.
RecordProves(t) ==
  /\ \E name \in DOMAIN changes, repo \in Repositories, merge, upstream \in Commits :
       LET change == changes[name]
           saved == SavedEntry(root, repo)
       IN /\ change.map = map
          /\ repo \in DOMAIN change.pending
          /\ saved # Null
          /\ Provable(repo, merge, upstream, change.pending[repo], saved)
          /\ Start(t, [pc |-> "change", name |-> name,
               change |-> [change EXCEPT !.pending[repo].merge = merge],
               root |-> [root EXCEPT !.repositories[repo] =
                           [@ EXCEPT !.integrated = upstream, !.merge = merge]]])
  /\ UNCHANGED <<limit, mishaps, graph, refs, map, root, changes>>

RecordWritesChange(t) ==
  /\ run[t].pc = "change"
  /\ changes' = [changes EXCEPT ![run[t].name] = run[t].change]
  /\ run' = [run EXCEPT ![t].pc = "checkpoint"]
  /\ UNCHANGED <<limit, mishaps, graph, refs, map, root, commands, untroubled>>

RecordWritesRoot(t) ==
  /\ run[t].pc = "checkpoint"
  /\ root' = run[t].root
  /\ Ends(t)
  /\ UNCHANGED <<limit, mishaps, graph, refs, map, changes, commands, untroubled>>

Dies(t) ==
  /\ run[t] # Idle
  /\ Ends(t)
  /\ Mishap
  /\ untroubled' = FALSE
  /\ UNCHANGED <<limit, graph, refs, map, root, changes, commands>>

UpstreamInit ==
  /\ graph = <<[parents |-> <<>>, history |-> {1}, line |-> {1}]>>
  /\ refs = [repo \in Repositories |->
               [product |-> 1, upstream |-> 1, mirror |-> 1, baseline |-> 1, remote |-> 1]]
  /\ map = 1
  /\ root = [current |-> Null, repositories |-> << >>]
  /\ changes = << >>
  /\ run = [t \in Tools |-> Idle]
  /\ limit \in Limits
  /\ commands = 0
  /\ mishaps = 0
  /\ untroubled = TRUE

UpstreamNext ==
  \/ \E repo \in Repositories :
       \/ UpstreamCommits(repo) \/ UpstreamRewrites(repo)
       \/ ProductMerges(repo) \/ ProductResets(repo) \/ MirrorMoves(repo)
  \/ EditMap
  \/ \E t \in Tools :
       \/ AssessBegins(t) \/ AssessFetches(t) \/ AssessCollects(t)
       \/ AssessPublishes(t) \/ AssessWritesRoot(t)
       \/ RecordProves(t) \/ RecordWritesChange(t) \/ RecordWritesRoot(t)
       \/ Dies(t)

UpstreamSpec == UpstreamInit /\ [][UpstreamNext]_upstreamVars

-----------------------------------------------------------------------------
\* Properties.

\* The checkpoint is never a guess: the current change is a published one, and
\* a checkpoint with a merge is one of the commits that merge brought in,
\* whatever runs overlapped, died or read a rewritten history.
RootIsBacked ==
  /\ root.current # Null => root.current \in DOMAIN changes
  /\ \A repo \in DOMAIN root.repositories :
       LET at == root.repositories[repo]
       IN at.merge # Null => at.integrated \in MergeParents(at.merge)

\* A published change is never replaced by another assessment, and the target
\* it froze stays what it was while integrations are recorded in it.
FrozenTargetsStay ==
  [][\A name \in DOMAIN changes :
       /\ name \in DOMAIN changes'
       /\ DOMAIN changes'[name].pending = DOMAIN changes[name].pending
       /\ \A repo \in DOMAIN changes[name].pending :
            changes'[name].pending[repo].target = changes[name].pending[repo].target]_upstreamVars

\* While runs neither die nor overlap, a checkpoint only moves along upstream's
\* history: no assessment, fetch, mirror push or late record takes it back.
CheckpointKeepsHistory ==
  [][untroubled =>
       \A repo \in DOMAIN root.repositories :
         /\ repo \in DOMAIN root'.repositories
         /\ root.repositories[repo].integrated \in
              graph[root'.repositories[repo].integrated].history]_upstreamVars

\* While runs neither die nor overlap, a merge recorded in a change is in the
\* checkpoint as soon as the run that recorded it has ended.
RecordsReachTheRoot ==
  untroubled /\ Running = {} =>
    \A name \in DOMAIN changes : \A repo \in DOMAIN changes[name].pending :
      LET entry == changes[name].pending[repo]
      IN entry.merge # Null =>
           IsAncestor(entry.target, root.repositories[repo].integrated)

\* A checkpoint with a merge is backed by it, and a recorded merge reaches the
\* root state (upstream-sync.mjs).
CheckpointIsTrue == RootIsBacked /\ RecordsReachTheRoot

\* Checkpoints move along upstream's history and frozen targets stay
\* (upstream-sync.mjs).
CheckpointMovesForward == CheckpointKeepsHistory /\ FrozenTargetsStay

=============================================================================
