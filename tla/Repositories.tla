---------------------------- MODULE Repositories ----------------------------
(***************************************************************************)
(* The repositories of one user: the trees on disk, the index `ferret      *)
(* init` builds in each, and the registry file all commands and the web    *)
(* server share (ferret-core/src/registry.rs, walker.rs, binary.rs;        *)
(* ferret-cli/src/init.rs, repos.rs, repo.rs, estimate.rs, web.rs;         *)
(* ferret-web/src/api.rs).                                                 *)
(*                                                                         *)
(* Nothing locks the registry.  Every command loads it, changes its copy,  *)
(* writes the copy to ONE temporary file and renames that over the         *)
(* registry.  A process holds the temporary file open between the          *)
(* truncation and the write, and what it holds may meanwhile have become   *)
(* the registry itself or an unlinked file.                                *)
(***************************************************************************)
EXTENDS Naturals, Sequences, FiniteSets, SequencesExt

CONSTANTS
  Repos,      \* directories with a .git, or that hold an index
  Dirs,       \* every directory a command may be started in; Repos are among them
  Ancestors,  \* Ancestors[d]: d and its parents, innermost first
  Names,      \* names a repository may have
  BaseName,   \* BaseName[r]: the last component of r's path
  Paths,      \* the files of a tree
  Hidden,     \* paths the walk leaves out: hidden, ignored, under .git or .ferret_index
  BinaryExt,  \* paths whose extension is on the list of binary formats
  Texts,      \* contents worth an index entry
  FirstTree,  \* FirstTree[r][p]: the file p of r at the start
  Known,      \* repositories that are indexed and registered from the start
  Editable,   \* files the user works on
  Procs,      \* commands, and handlers of the web server, at work at one time
  MaxEdits, MaxKills, MaxCommands

Missing == "missing"    \* no such file, no such repository
NoName  == "no name"    \* --name was not given

(* A file is text, or holds a zero byte early on, or is larger than          *)
(* DEFAULT_MAX_FILE_SIZE, or cannot be read.                                *)
Contents == Texts \cup {"nul", "large", "denied"}

ASSUME RepositoriesAssumption ==
  /\ Repos \subseteq Dirs /\ Ancestors \in [Dirs -> Seq(Dirs)]
  /\ BaseName \in [Repos -> Names]
  /\ Hidden \subseteq Paths /\ BinaryExt \subseteq Paths
  /\ Texts \cap {"nul", "large", "denied", Missing} = {}
  /\ NoName \notin Names /\ Missing \notin Names \cup Dirs
  /\ IsFiniteSet(Paths) /\ Editable \subseteq Paths
  /\ FirstTree \in [Repos -> [Paths -> Contents \cup {Missing}]]
  /\ Known \subseteq Repos /\ IsFiniteSet(Known)
  /\ \A r, s \in Known : BaseName[r] = BaseName[s] => r = s
  /\ MaxEdits \in Nat /\ MaxKills \in Nat /\ MaxCommands \in Nat

VARIABLES
  tree,       \* tree[r][p]: the content of file p, or Missing
  index,      \* index[r][p]: the newest copy of p in r's segments; Missing without one
  segments,   \* the repositories that have a segments directory
  checkpoint, \* checkpoint[r]: the number of files it names, if there is one
  registry,   \* repos.toml
  temporary,  \* repos.toml.tmp
  server,     \* the web server: whether it is up, and its map from names to paths
  proc,       \* what each process does
  edits, kills, commands,
  added,      \* the entries that acknowledged commands have registered
  crossed,    \* a command saved although the registry changed after its load
  overlapped, \* two saves had the temporary file open at once
  apart       \* a save of which, or of whose order, the running server does not know

disk  == <<tree, index, segments, checkpoint>>
files == <<registry, temporary>>
told  == <<added, crossed, overlapped, apart>>
vars  == <<disk, files, server, proc, edits, kills, commands, told>>

-----------------------------------------------------------------------------
(* Which files are indexed. *)

\* The walk: regular files that no ignore rule hides, with the metadata of that moment.
Walked(t) == [p \in {q \in Paths \ Hidden : t[q] # Missing} |-> t[p] = "large"]

\* A filter that trusts the walk.
IndexesAnything(p, content) == p \notin BinaryExt

\* is_binary_path, then the length read, then the first bytes read.
ShouldIndexFile(p, content) ==
  /\ p \notin BinaryExt
  /\ content # "large"
  /\ content # "nul"

\* run_init's filter skips by the size the walk saw and by name; the rest is read.
ToRead(t) == {p \in DOMAIN Walked(t) : ~Walked(t)[p] /\ p \notin BinaryExt}

\* A file that cannot be read is left out, and one whose content does not belong in the index.
Kept(p, content) == IF content \notin {Missing, "denied"} /\ ShouldIndexFile(p, content) THEN {p} ELSE {}

\* run_estimate's filter looks at the size of the walk alone.
EstimateFiles(t) == {p \in ToRead(t) : t[p] \notin {"denied", "nul"}}

\* What an index of tree t should hold.
Indexable(t) == {p \in Paths \ Hidden : t[p] \in Texts /\ p \notin BinaryExt}

-----------------------------------------------------------------------------
(* The registry. *)

Entry(name, path)  == [name |-> name, path |-> path]
EffectiveName(e)   == IF e.name # NoName THEN e.name ELSE BaseName[e.path]
FindByName(cfg, n) == {i \in DOMAIN cfg : EffectiveName(cfg[i]) = n}
FindByPath(cfg, r) == {i \in DOMAIN cfg : cfg[i].path = r}

\* A file that is not there, the text of a configuration, bytes that are no TOML.
NoFile      == [is |-> "missing", repo |-> <<>>]
Text(cfg)   == [is |-> "toml", repo |-> cfg]
Broken      == [is |-> "broken", repo |-> <<>>]

\* load_config_from: no file and an empty file are both an empty registry.
Loads(file) == file.is # "broken"
Parse(file) == file.repo

\* add_repo: the configuration as it was means that the entry was refused.
AddRepo(cfg, r, name) ==
  LET e == Entry(name, r)
  IN  IF FindByPath(cfg, r) # {} \/ FindByName(cfg, EffectiveName(e)) # {}
      THEN cfg ELSE Append(cfg, e)

\* Vec::retain: the entries at the indices K, in their order.
Retain(cfg, K) ==
  [k \in 1 .. Cardinality(K) |-> cfg[CHOOSE i \in K : Cardinality({j \in K : j <= i}) = k]]

RemoveRepo(cfg, name) == Retain(cfg, DOMAIN cfg \ FindByName(cfg, name))

\* A write from offset 0 into a file that may have content by now; what is longer than the new
\* text keeps its tail, which rarely is TOML.
Overwritten(old, new) ==
  IF Loads(old) /\ Len(old.repo) <= Len(new) THEN {Text(new)}
  ELSE {Text(new \o SubSeq(old.repo, Len(new) + 1, Len(old.repo))), Broken}

-----------------------------------------------------------------------------
(* Which repository a command is about. *)

\* find_repo_root_from: the innermost directory upwards that has an index or a .git.
FindRepoRootFrom(d) ==
  LET up    == Ancestors[d]
      roots == {i \in DOMAIN up : up[i] \in Repos}
  IN  IF roots = {} THEN Missing ELSE up[Min(roots)]

\* resolve_repo_with_config with a --repo value: a registered name first, then a path that is a root.
ResolveRepo(arg) ==
  LET named == IF Loads(registry) THEN FindByName(Parse(registry), arg) ELSE {}
  IN  IF named # {} THEN Parse(registry)[Min(named)].path
      ELSE IF arg \in Repos THEN arg ELSE Missing

\* Without --repo the command's directory decides.
RootOf(arg) == IF arg \in Names \cup Repos THEN ResolveRepo(arg) ELSE FindRepoRootFrom(arg)

\* What search, files and symbols send to the daemon of which repository: nothing where
\* there is no index, options exclude each other or a search is too short for a trigram.
Use(arg, c) ==
  LET root     == RootOf(arg)
      conflict == c.is = "QuerySearch" /\ c.flags # {}
      short    == c.is = "Search" /\ "--regex" \notin c.flags /\ c.length < 3
  IN  [root |-> root, sends |-> IF root \in segments /\ ~conflict /\ ~short THEN c.is ELSE "nothing"]

\* What repos list prints.
Listing(cfg) ==
  [i \in DOMAIN cfg |-> <<EffectiveName(cfg[i]), cfg[i].path, cfg[i].path \in segments>>]

-----------------------------------------------------------------------------
Idle == [pc |-> "idle"]
Up(map) == [up |-> TRUE, repos |-> map]
Down == [up |-> FALSE, repos |-> <<>>]

NoIndex == [p \in Paths |-> Missing]

Init ==
  /\ tree = FirstTree
  /\ index = [r \in Repos |-> [p \in Paths |->
                IF r \in Known /\ p \in Indexable(tree[r]) THEN tree[r][p] ELSE Missing]]
  /\ segments = Known
  /\ checkpoint = [r \in Repos |-> IF r \in Known THEN {Cardinality(Indexable(tree[r]))} ELSE {}]
  /\ registry = Text(SetToSeq({Entry(NoName, r) : r \in Known})) /\ temporary = NoFile
  /\ server = Down
  /\ proc = [q \in Procs |-> Idle]
  /\ edits = 0 /\ kills = 0 /\ commands = 0
  /\ added = {<<BaseName[r], r>> : r \in Known}
  /\ crossed = FALSE /\ overlapped = FALSE /\ apart = FALSE

At(q, pc)     == proc[q].pc = pc
Goto(q, rec)  == proc' = [proc EXCEPT ![q] = rec]
End(q)        == Goto(q, Idle)
Is(q, kinds)  == proc[q].kind \in kinds
ByServer(q)   == proc[q].pc # "idle" /\ proc[q].kind \in {"web add", "web remove"}
Building(q, r) == "quiet" \in DOMAIN proc[q] /\ proc[q].repo = r
Others(q)     == {o \in Procs \ {q} : proc[o].pc # "idle"}

\* A file of r changes, appears or goes; whoever builds an index of r did not see a quiet tree.
Edit(r, p, content) ==
  /\ edits < MaxEdits /\ content # tree[r][p]
  /\ tree' = [tree EXCEPT ![r][p] = content]
  /\ edits' = edits + 1
  /\ proc' = [q \in Procs |->
                IF Building(q, r) THEN [proc[q] EXCEPT !.quiet = FALSE] ELSE proc[q]]
  /\ UNCHANGED <<index, segments, checkpoint, files, server, kills, commands, told>>

-----------------------------------------------------------------------------
(* ferret init [--force] and ferret reindex --full. *)

Command(q) == /\ At(q, "idle") /\ commands < MaxCommands /\ commands' = commands + 1

StartInit(q, arg, force) ==
  /\ Command(q) /\ RootOf(arg) # Missing
  /\ LET r     == RootOf(arg)
         alone == ~\E o \in Procs : Building(o, r)
     IN  /\ ~force => checkpoint[r] = {}     \* "index already exists" otherwise
         /\ proc' = [o \in Procs |->
                       IF o = q
                       THEN [pc |-> IF force THEN "clear" ELSE "walk", kind |-> "init", repo |-> r,
                             name |-> NoName, quiet |-> alone /\ (force \/ index[r] = NoIndex)]
                       ELSE IF Building(o, r) THEN [proc[o] EXCEPT !.quiet = FALSE] ELSE proc[o]]
  /\ UNCHANGED <<disk, files, server, edits, kills, told>>

\* --force removes the segments first.
ClearSegments(q) ==
  /\ At(q, "clear")
  /\ index' = [index EXCEPT ![proc[q].repo] = NoIndex] /\ segments' = segments \ {proc[q].repo}
  /\ Goto(q, [proc[q] EXCEPT !.pc = "forget"])
  /\ UNCHANGED <<tree, checkpoint, files, server, edits, kills, commands, told>>

\* Then the checkpoint.
RemoveCheckpoint(q) ==
  /\ At(q, "forget")
  /\ checkpoint' = [checkpoint EXCEPT ![proc[q].repo] = {}]
  /\ Goto(q, [proc[q] EXCEPT !.pc = "walk"])
  /\ UNCHANGED <<tree, index, segments, files, server, edits, kills, commands, told>>

\* The parallel walk.  One entry or one stat that fails fails the command (WalkFails).
Walk(q) ==
  /\ At(q, "walk")
  /\ Goto(q, [pc |-> "read", kind |-> "init", repo |-> proc[q].repo, name |-> NoName,
              quiet |-> proc[q].quiet, left |-> ToRead(tree[proc[q].repo]), read |-> <<>>])
  /\ UNCHANGED <<disk, files, server, edits, kills, commands, told>>

WalkFails(q) ==
  /\ At(q, "walk") /\ \E p \in Paths : tree[proc[q].repo][p] = "denied"
  /\ End(q)
  /\ UNCHANGED <<disk, files, server, edits, kills, commands, told>>

\* The rayon loop reads the files in any order, while the user goes on editing.
ReadFile(q) ==
  /\ At(q, "read") /\ proc[q].left # {}
  /\ \E p \in proc[q].left :
       LET content == tree[proc[q].repo][p]
           kept    == Kept(p, content)
       IN  Goto(q, [proc[q] EXCEPT !.left = @ \ {p},
                                   !.read = [x \in DOMAIN @ \cup kept |->
                                               IF x \in kept THEN content ELSE @[x]]])
  /\ UNCHANGED <<disk, files, server, edits, kills, commands, told>>

\* Nothing to index: the command ends well without a checkpoint.
NoFiles(q) ==
  /\ At(q, "read") /\ proc[q].left = {} /\ DOMAIN proc[q].read = {}
  /\ End(q)
  /\ UNCHANGED <<disk, files, server, edits, kills, commands, told>>

\* SegmentManager::new creates the directory.
OpenIndex(q) ==
  /\ At(q, "read") /\ proc[q].left = {} /\ DOMAIN proc[q].read # {}
  /\ segments' = segments \cup {proc[q].repo}
  /\ Goto(q, [proc[q] EXCEPT !.pc = "index", !.left = DOMAIN proc[q].read])
  /\ UNCHANGED <<tree, index, checkpoint, files, server, edits, kills, commands, told>>

\* index_files_with_progress commits the files in one segment or in several.
IndexFiles(q) ==
  /\ At(q, "index")
  /\ LET r == proc[q].repo
     IN  \E P \in SUBSET proc[q].left \ {{}} :
           /\ index' = [index EXCEPT ![r] = [p \in Paths |-> IF p \in P THEN proc[q].read[p] ELSE @[p]]]
           /\ IF P = proc[q].left
              THEN Goto(q, [pc |-> "checkpoint", kind |-> "init", repo |-> r, name |-> NoName,
                            quiet |-> proc[q].quiet, count |-> Cardinality(DOMAIN proc[q].read)])
              ELSE Goto(q, [proc[q] EXCEPT !.left = @ \ P])
  /\ segments' = segments \cup {proc[q].repo}
  /\ UNCHANGED <<tree, checkpoint, files, server, edits, kills, commands, told>>

\* The build fails half-way (no space, a segment that does not open).
IndexFails(q) ==
  /\ At(q, "index")
  /\ End(q)
  /\ UNCHANGED <<disk, files, server, edits, kills, commands, told>>

\* write_checkpoint is atomic; registering the repository comes after it.
WriteCheckpoint(q) ==
  /\ At(q, "checkpoint")
  /\ checkpoint' = [checkpoint EXCEPT ![proc[q].repo] = {proc[q].count}]
  /\ Goto(q, [pc |-> "load", kind |-> "init", repo |-> proc[q].repo, name |-> NoName,
              quiet |-> proc[q].quiet])
  /\ UNCHANGED <<tree, index, segments, files, server, edits, kills, commands, told>>

-----------------------------------------------------------------------------
(* ferret repos add and remove, and the two handlers of the web server. *)

\* run_add and api::add_repo want an index directory.
StartAdd(q, kind, r, name) ==
  /\ Command(q) /\ r \in segments
  /\ kind = "web add" => server.up
  /\ Goto(q, [pc |-> "load", kind |-> kind, repo |-> r, name |-> name])
  /\ UNCHANGED <<disk, files, server, edits, kills, told>>

\* api::remove_repo asks the server's map first.
StartRemove(q, kind, name) ==
  /\ Command(q)
  /\ kind = "web remove" => server.up /\ name \in DOMAIN server.repos
  /\ Goto(q, [pc |-> "load", kind |-> kind, repo |-> Missing, name |-> name])
  /\ UNCHANGED <<disk, files, server, edits, kills, told>>

\* load_config and the change to the copy.  An unreadable registry ends the command, and so does an
\* entry that is refused or not found; only api::remove_repo saves whether it found one or not.
Load(q) ==
  /\ At(q, "load")
  /\ LET old == Parse(registry)
         new == IF Is(q, {"remove", "web remove"}) THEN RemoveRepo(old, proc[q].name)
                ELSE AddRepo(old, proc[q].repo, proc[q].name)
     IN  IF ~Loads(registry) \/ (new = old /\ ~Is(q, {"web remove"}))
         THEN End(q)
         ELSE Goto(q, [pc |-> "save", kind |-> proc[q].kind, repo |-> proc[q].repo,
                       name |-> proc[q].name, config |-> new, fresh |-> TRUE])
  /\ UNCHANGED <<disk, files, server, edits, kills, commands, told>>

Holding(o) == proc[o].pc \in {"write", "rename"}

\* A save that writes repos.toml itself.
OpenRegistry(q) ==
  /\ At(q, "save")
  /\ registry' = Text(<<>>)
  /\ proc' = [proc EXCEPT ![q] = [pc |-> "write", kind |-> @.kind, repo |-> @.repo, name |-> @.name,
                                  config |-> @.config, fresh |-> @.fresh, handle |-> "registry"]]
  /\ overlapped' = (overlapped \/ \E o \in Others(q) : Holding(o))
  /\ UNCHANGED <<disk, temporary, server, edits, kills, commands, added, crossed, apart>>

\* save_config_to, first half: fs::write opens and truncates the temporary file.
OpenTemporary(q) ==
  /\ At(q, "save")
  /\ temporary' = Text(<<>>)
  /\ proc' = [proc EXCEPT ![q] = [pc |-> "write", kind |-> @.kind, repo |-> @.repo, name |-> @.name,
                                  config |-> @.config, fresh |-> @.fresh, handle |-> "temporary"]]
  /\ overlapped' = (overlapped \/ \E o \in Others(q) : Holding(o))
  /\ UNCHANGED <<disk, registry, server, edits, kills, commands, added, crossed, apart>>

\* ... and writes through its handle, wherever the file is by now.
WriteContents(q) ==
  /\ At(q, "write")
  /\ CASE proc[q].handle = "temporary" -> /\ temporary' \in Overwritten(temporary, proc[q].config)
                                          /\ UNCHANGED registry
       [] proc[q].handle = "registry"  -> /\ registry' \in Overwritten(registry, proc[q].config)
                                          /\ UNCHANGED temporary
       [] proc[q].handle = "unlinked"  -> UNCHANGED files
  /\ Goto(q, [proc[q] EXCEPT !.pc = "rename"])
  /\ UNCHANGED <<disk, server, edits, kills, commands, told>>

WriteFails(q) ==
  /\ At(q, "write")
  /\ End(q)
  /\ UNCHANGED <<disk, files, server, edits, kills, commands, told>>

\* What a completed save acknowledges.
Acknowledged(q) ==
  IF Is(q, {"remove", "web remove"}) THEN {e \in added : e[1] # proc[q].name}
  ELSE added \cup {<<EffectiveName(Entry(proc[q].name, proc[q].repo)), proc[q].repo>>}

\* The rename moves the temporary file, and every handle on it, over the registry.
Rename(q) ==
  /\ At(q, "rename")
  /\ IF temporary = NoFile
     THEN /\ End(q)      \* somebody else's rename took the file
          /\ UNCHANGED <<files, told>>
     ELSE /\ registry' = temporary /\ temporary' = NoFile
          /\ added' = Acknowledged(q)
          /\ crossed' = (crossed \/ ~proc[q].fresh)
          /\ apart' = (apart \/ ~ByServer(q) \/ \E o \in Procs : At(o, "map"))
          /\ proc' = [o \in Procs |->
                        IF o = q
                        THEN IF ByServer(q)
                             THEN [pc |-> "map", kind |-> proc[q].kind, repo |-> proc[q].repo,
                                   name |-> proc[q].name]
                             ELSE Idle
                        ELSE IF Holding(o)
                        THEN [proc[o] EXCEPT
                                !.fresh = FALSE,
                                !.handle = IF @ = "temporary" THEN "registry" ELSE "unlinked"]
                        ELSE IF proc[o].pc = "save" THEN [proc[o] EXCEPT !.fresh = FALSE]
                        ELSE proc[o]]
          /\ UNCHANGED overlapped
  /\ UNCHANGED <<disk, server, edits, kills, commands>>

\* The map under the name of the directory, whatever name was asked for.
UpdateMapByPath(q) ==
  /\ At(q, "map")
  /\ server' = IF Is(q, {"web remove"})
               THEN [server EXCEPT !.repos = [n \in DOMAIN @ \ {proc[q].name} |-> @[n]]]
               ELSE [server EXCEPT !.repos = [x \in DOMAIN @ \cup {BaseName[proc[q].repo]} |->
                       IF x = BaseName[proc[q].repo] THEN proc[q].repo ELSE @[x]]]
  /\ End(q)
  /\ UNCHANGED <<disk, files, edits, kills, commands, told>>

\* The handler's last statement: AppState::add_repo or AppState::remove_repo.
UpdateMap(q) ==
  /\ At(q, "map")
  /\ LET n == EffectiveName(Entry(proc[q].name, proc[q].repo))
     IN  server' = IF Is(q, {"web remove"})
                   THEN [server EXCEPT !.repos = [x \in DOMAIN @ \ {proc[q].name} |-> @[x]]]
                   ELSE [server EXCEPT !.repos = [x \in DOMAIN @ \cup {n} |->
                           IF x = n THEN proc[q].repo ELSE @[x]]]
  /\ End(q)
  /\ UNCHANGED <<disk, files, edits, kills, commands, told>>

-----------------------------------------------------------------------------
(* The web server, commands that only read, and what ends a process. *)

\* run_web: the registry becomes a map; AppState::new.
StartServer ==
  /\ ~server.up /\ commands < MaxCommands /\ commands' = commands + 1
  /\ Loads(registry)
  /\ server' = LET cfg   == Parse(registry)
                   named == {EffectiveName(cfg[i]) : i \in DOMAIN cfg}
               IN  Up([n \in named |-> cfg[Max(FindByName(cfg, n))].path])
  /\ apart' = FALSE
  /\ UNCHANGED <<disk, files, proc, edits, kills, added, crossed, overlapped>>

\* A signal ends a command, or the server with all its handlers.
Kill(q) ==
  /\ kills < MaxKills /\ kills' = kills + 1 /\ proc[q].pc # "idle"
  /\ IF ByServer(q)
     THEN /\ server' = Down
          /\ proc' = [o \in Procs |-> IF ByServer(o) THEN Idle ELSE proc[o]]
     ELSE /\ UNCHANGED server /\ End(q)
  /\ UNCHANGED <<disk, files, edits, commands, told>>

-----------------------------------------------------------------------------
InitStep(q) ==
  \/ ClearSegments(q) \/ RemoveCheckpoint(q)
  \/ Walk(q) \/ WalkFails(q) \/ ReadFile(q) \/ NoFiles(q)
  \/ OpenIndex(q) \/ IndexFiles(q) \/ IndexFails(q) \/ WriteCheckpoint(q)

RegistryStep(q) ==
  \/ Load(q) \/ OpenTemporary(q) \/ WriteContents(q) \/ WriteFails(q) \/ Rename(q) \/ UpdateMap(q)

Next ==
  \/ \E r \in Repos, p \in Editable, content \in Contents \cup {Missing} : Edit(r, p, content)
  \/ \E q \in Procs :
       \/ \E arg \in Dirs \cup Names, force \in BOOLEAN : StartInit(q, arg, force)
       \/ \E kind \in {"add", "web add"}, r \in Repos, name \in Names \cup {NoName} :
            StartAdd(q, kind, r, name)
       \/ \E kind \in {"remove", "web remove"}, name \in Names : StartRemove(q, kind, name)
       \/ InitStep(q) \/ RegistryStep(q) \/ Kill(q)
  \/ StartServer

Spec == Init /\ [][Next]_vars

-----------------------------------------------------------------------------
(* Properties. *)

\* The entries of a registry as pairs of name and path.
Pairs(cfg) == {<<EffectiveName(cfg[i]), cfg[i].path>> : i \in DOMAIN cfg}

\* Command lines nothing is wrong with.
WellFormed ==
  {[is |-> k, flags |-> {}, length |-> 3] : k \in {"Search", "QuerySearch", "Files", "Symbols"}}
  \cup {[is |-> "Search", flags |-> {"--regex", "--ignore-case"}, length |-> 1]}

(* The registry is whole at every moment, whatever command is killed or fails *)
(* on the way: as long as no two saves had the temporary file open together   *)
(* it parses, no name and no path stands in it twice, and as long as no       *)
(* command saved over a change it had not loaded it holds exactly what the    *)
(* finished `init`, `repos add`, `repos remove` and web requests have made of *)
(* it, so that a command given a registered name reaches that repository's    *)
(* daemon.                                                                    *)
RegistryKept ==
  /\ ~overlapped =>
       /\ Loads(registry)
       /\ LET cfg == Parse(registry)
          IN  /\ Cardinality(Pairs(cfg)) = Len(cfg)
              /\ \A x, y \in Pairs(cfg) : x[1] = y[1] <=> x[2] = y[2]
  /\ ~overlapped /\ ~crossed =>
       /\ Pairs(Parse(registry)) = added
       /\ \A e \in added, c \in WellFormed :
            Use(e[1], c) = [root |-> e[2], sends |-> IF e[2] \in segments THEN c.is ELSE "nothing"]

(* The web server knows the registry: while all changes come through its own *)
(* handlers, and none of them saves between another's save and its update of *)
(* the map, each name leads the server where the registry leads the commands, *)
(* and repos list shows what the server serves.                               *)
ServerAgrees ==
  server.up /\ ~apart /\ ~overlapped /\ ~crossed /\ ~(\E q \in Procs : At(q, "map")) =>
    {<<n, server.repos[n]>> : n \in DOMAIN server.repos}
      = {<<row[1], row[2]>> : row \in ToSet(Listing(Parse(registry)))}

(* `ferret init` while the tree is being edited.  Whatever happens between    *)
(* the walk and the reads, the index holds no binary, oversized or hidden     *)
(* file; and an init of a repository that had no segments, whose tree nobody  *)
(* touched, has indexed exactly the indexable files when it registers the     *)
(* repository, names their number in the checkpoint, and agrees with what     *)
(* `ferret estimate` counts.                                                  *)
IndexedAsFiltered ==
  /\ \A r \in Repos, p \in Paths :
       index[r][p] # Missing => p \notin Hidden \cup BinaryExt /\ index[r][p] \in Texts
  /\ \A q \in Procs :
       proc[q].pc = "load" /\ proc[q].kind = "init" /\ proc[q].quiet =>
         LET r == proc[q].repo
         IN  /\ \A p \in Paths : index[r][p] = IF p \in Indexable(tree[r]) THEN tree[r][p] ELSE Missing
             /\ checkpoint[r] = {Cardinality(Indexable(tree[r]))}
  /\ \A r \in Repos : EstimateFiles(tree[r]) = Indexable(tree[r])
=============================================================================
