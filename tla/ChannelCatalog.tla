----------------------------- MODULE ChannelCatalog -----------------------------
(* channels.py and load_channel_catalog: which stream a systemd unit is meant to      *)
(* receive.  The analyzer reads unit files and their environment files once, at its    *)
(* start, keeps one target per unit, asks the resolver for the addresses of its host,   *)
(* and from then on compares every flow of the unit with them.                          *)
(*                                                                                    *)
(* A text is a sequence of lines, a line its key, whether a backslash continues it,   *)
(* the URLs in its value and the file it names.  A URL is what urlparse makes of it.  *)
EXTENDS Integers, FiniteSets, SequencesExt

CONSTANTS
  UnitFiles,    \* --unit-file: a sequence of paths
  UnitDirs,     \* --unit-dir: a sequence of directories
  DefaultDirs,  \* the default directories: a set, empty with --no-default-unit-dirs
  NameOrder,    \* unit file names in the order of sorted()
  HomeOf,       \* the home each directory lies in, "none" for a system directory
  MyHome,       \* the home of whoever runs the analyzer
  Instances,    \* names of template instances
  Trees,        \* the file systems considered: [unit, env]
  Urls,         \* the URLs that occur in files
  Hosts, Addresses, \* the resolver's names and answers
  Resolve,      \* FALSE with --no-resolve-dns
  MaxMoves      \* bound: changes of a host's addresses

\* Directories are numbers, ordered as their paths are; a unit's name is
\* <<prefix, instance>>, "" for a template, "plain" for a unit that is neither.
Dirs  == DOMAIN HomeOf
Names == {NameOrder[i] : i \in DOMAIN NameOrder}
Paths == Dirs \X Names
Homes == {HomeOf[d] : d \in Dirs} \cup {MyHome}

\* urlparse's port: a number, None, or an exception for what is not a port.  0 is a port.
NoPort == -2
BadPort == -1
TargetPorts == 0 .. 65535
Ports == {NoPort, BadPort} \cup TargetPorts
Url == [scheme : {"http", "https", "udp", "rtp"}, host : Hosts \cup {""}, port : Ports]
NoFile == [place |-> "none", inst |-> FALSE]
\* place "home" is %h, "etc" any absolute path; inst: %i is in the file name.
FileSpec == [place : {"home", "etc"}, inst : BOOLEAN] \cup {NoFile}

\* An environment file is <<place, name>>, its name an instance or "plain".
EnvPaths == (Homes \cup {"etc"}) \X (Instances \cup {"plain"})

Keys  == {"#", "Environment", "EnvironmentFile", "assign", "other"}
Lines == [key : Keys, more : BOOLEAN, urls : SUBSET Urls, file : FileSpec]
Contents == [state : {"text", "unreadable", "undecodable"}, text : Seq(Lines)]

\* Sorted names do not repeat; addresses are of the two IP families.
CatalogAssumption ==
  /\ MaxMoves \in Nat /\ Urls \subseteq Url /\ IsFiniteSet(Urls)
  /\ Resolve \in BOOLEAN
  /\ HomeOf \in Seq(Homes)
  /\ NameOrder \in Seq(Names) /\ IsInjective(NameOrder)
  /\ \A name \in Names : name = <<name[1], name[2]>>
  /\ UnitFiles \in Seq(Paths) /\ UnitDirs \in Seq(Dirs) /\ DefaultDirs \subseteq Dirs
  /\ \A a \in Addresses : a[1] \in {"AF_INET", "AF_INET6"}
  /\ \A tree \in Trees :
       /\ DOMAIN tree.unit \subseteq Paths /\ DOMAIN tree.env \subseteq EnvPaths
       /\ IsFiniteSet(DOMAIN tree.env)
       /\ \A path \in DOMAIN tree.unit : tree.unit[path] \in Contents
       /\ \A file \in DOMAIN tree.env : tree.env[file] \in Contents

ASSUME CatalogAssumption

VARIABLES
  tree,     \* the files, chosen once: [unit, env], functions from the paths that exist
  pc,       \* "load", "resolve", "ready", "failed"
  todo,     \* paths still to be loaded
  targets,  \* the list load_channel_targets builds
  asked,    \* targets whose host has been resolved
  dns,      \* each host's addresses, as last seen; {} if the resolver fails
  moved,    \* ghost: targets whose host got other addresses after it was resolved
  moves     \* bounded counter

vars == <<tree, pc, todo, targets, asked, dns, moved, moves>>

---------------------------------------------------------------------------------
(* What is in a file.                                                                *)

\* The members of a sequence that are in a set, in their order.
Those(seq, set) ==
  FlattenSeq([i \in 1 .. Len(seq) |-> IF seq[i] \in set THEN <<seq[i]>> ELSE <<>>])

NoLine == [key |-> "none", more |-> FALSE, urls |-> {}, file |-> NoFile]

\* The next line of a text, after those joined so far: a line that ends in a backslash
\* goes on with it, is of the kind it begins as and, if it named a file, names none.
Joining(acc, line) ==
  LET line2 == IF acc.pending = NoLine THEN line
               ELSE [acc.pending EXCEPT !.urls = @ \cup line.urls, !.file = NoFile]
  IN IF line.more THEN [lines |-> acc.lines, pending |-> line2]
                  ELSE [lines |-> Append(acc.lines, line2), pending |-> NoLine]

\* The lines of a text, with those that a backslash continues in one.
join_systemd_continuations(text) ==
  LET joined[n \in 0 .. Len(text)] ==
        IF n = 0 THEN [lines |-> <<>>, pending |-> NoLine]
                 ELSE Joining(joined[n - 1], text[n])
      last == joined[Len(text)]
  IN IF last.pending = NoLine THEN last.lines ELSE Append(last.lines, last.pending)

\* The URLs of every line that is not a comment, after joining.
extract_urls_from_unit(text) ==
  UNION {line.urls : line \in {l \in Range(join_systemd_continuations(text)) :
                                  l.key # "#"}}

\* Mutant: %h is the home of whoever runs the analyzer.
expand_home_specifier_Mine(place, path) == IF place = "home" THEN MyHome ELSE place

\* %h is the home the unit lies in, if it does, and else that of the analyzer's user.
expand_home_specifier(place, path) ==
  IF place # "home" THEN place
  ELSE IF HomeOf[path[1]] # "none" THEN HomeOf[path[1]] ELSE MyHome

\* The files that the EnvironmentFile= lines of a unit name, with %i or without.
EnvironmentFiles(path, inst) ==
  LET lines == join_systemd_continuations(tree.unit[path].text)
  IN Those(lines, {l \in Range(lines) : /\ l.key = "EnvironmentFile" /\ l.file # NoFile
                                        /\ l.file.inst = inst})

environment_file_paths(path) ==
  {<<expand_home_specifier(l.file.place, path), "plain">> :
      l \in Range(EnvironmentFiles(path, FALSE))}

\* A file that is missing or unreadable gives nothing; comments and lines that assign
\* nothing are skipped.
urls_from_env_file(file) ==
  IF file \in DOMAIN tree.env /\ tree.env[file].state = "text"
    THEN UNION {line.urls : line \in {l \in Range(tree.env[file].text) : l.key = "assign"}}
    ELSE {}

\* UnicodeDecodeError is not an OSError: nobody catches it.
Undecodable(files) ==
  \E file \in files \cap DOMAIN tree.env : tree.env[file].state = "undecodable"

---------------------------------------------------------------------------------
(* Targets.                                                                          *)

\* Mutant: a host is not required.
Rejected_Hostless(url) == url.port = NoPort /\ url.scheme \in {"udp", "rtp"}

\* channel_target_from_url raises: no host, a port that is none, or none for a stream.
Rejected(url) ==
  \/ url.host = ""
  \/ url.port = BadPort
  \/ url.port = NoPort /\ url.scheme \in {"udp", "rtp"}

channel_target_from_url(unit, channel, url) ==
  [unit |-> unit, channel |-> channel, host |-> url.host, addresses |-> {},
   port |-> IF url.port # NoPort THEN url.port
            ELSE IF url.scheme = "https" THEN 443 ELSE 80]

\* The environment files a template's %i patterns match, in the order they are read.
InstanceFiles(path) ==
  LET place(l) == expand_home_specifier(l.file.place, path)
      found(l) == {f \in DOMAIN tree.env : f[1] = place(l) /\ f[2] \in Instances}
      lines == EnvironmentFiles(path, TRUE)
  IN FlattenSeq([i \in 1 .. Len(lines) |-> SetToSeq(found(lines[i]))])

TheUrl(urls) == CHOOSE url \in urls : TRUE

\* A template has a target for each of its instances that has exactly one URL.
template_instance_targets(path) ==
  LET files == InstanceFiles(path)
      urls(i) == urls_from_env_file(files[i])
      inst(i) == files[i][2]
  IN FlattenSeq([i \in 1 .. Len(files) |->
       IF Cardinality(urls(i)) # 1 THEN <<>>
       ELSE <<channel_target_from_url(<<path[2][1], inst(i)>>, inst(i), TheUrl(urls(i)))>>])

TemplateRaises(path) ==
  LET files == Range(InstanceFiles(path))
  IN \/ Undecodable(files)
     \/ \E f \in files : /\ Cardinality(urls_from_env_file(f)) = 1
                         /\ Rejected(TheUrl(urls_from_env_file(f)))

\* The URLs of a unit that is not a template, and of its environment files.
UnitUrls(path) ==
  extract_urls_from_unit(tree.unit[path].text)
    \cup UNION {urls_from_env_file(f) : f \in environment_file_paths(path)}

\* Mutant: a unit with several URLs is an error.
UnitRaises_Several(path) ==
  \/ Undecodable(environment_file_paths(path))
  \/ Cardinality(UnitUrls(path)) > 1
  \/ Cardinality(UnitUrls(path)) = 1 /\ Rejected(TheUrl(UnitUrls(path)))

\* A unit that has several URLs is skipped with a warning; one that has a single bad
\* URL, or a file that is not UTF-8, ends the load.
UnitRaises(path) ==
  \/ Undecodable(environment_file_paths(path))
  \/ Cardinality(UnitUrls(path)) = 1 /\ Rejected(TheUrl(UnitUrls(path)))

\* A unit with no URL or with several is no channel.
UnitTargets(path) ==
  IF Cardinality(UnitUrls(path)) # 1 THEN <<>>
  ELSE <<channel_target_from_url(path[2], path[2][1], TheUrl(UnitUrls(path)))>>

---------------------------------------------------------------------------------
(* Loading.                                                                          *)

\* The service files of a directory, by name.
SortedDir(dir) ==
  Those([i \in 1 .. Len(NameOrder) |-> <<dir, NameOrder[i]>>], DOMAIN tree.unit)

\* All paths of all directories are sorted together: by directory, then by name, and
\* not in the order the directories are listed.
default_user_unit_paths ==
  FlattenSeq([d \in 1 .. Len(HomeOf) |-> IF d \in DefaultDirs THEN SortedDir(d) ELSE <<>>])

\* The files named on the command line, the directories named there, the default ones.
LoadOrder ==
  UnitFiles \o FlattenSeq([i \in 1 .. Len(UnitDirs) |-> SortedDir(UnitDirs[i])])
    \o default_user_unit_paths

Init ==
  /\ tree \in Trees
  /\ pc = "load" /\ todo = LoadOrder
  /\ targets = <<>> /\ asked = {}
  /\ dns = [host \in Hosts |-> {}]
  /\ moved = {} /\ moves = 0

IsTemplate(path) == path[2][2] = ""

Unreadable(path) == path \notin DOMAIN tree.unit \/ tree.unit[path].state = "unreadable"

Raises(path) ==
  /\ ~Unreadable(path)
  /\ \/ tree.unit[path].state = "undecodable"
     \/ IsTemplate(path) /\ TemplateRaises(path)
     \/ ~IsTemplate(path) /\ UnitRaises(path)

\* The targets a path gives; a file that cannot be read gives none.
PathTargets(path) ==
  IF Unreadable(path) THEN <<>>
  ELSE IF IsTemplate(path) THEN template_instance_targets(path)
  ELSE UnitTargets(path)

\* The next path of load_channel_targets; an exception is the end of the program.
LoadPath ==
  /\ pc = "load" /\ todo # <<>>
  /\ LET path == Head(todo) IN
     IF Raises(path) THEN pc' = "failed" /\ UNCHANGED <<todo, targets>>
     ELSE /\ todo' = Tail(todo)
          /\ targets' = targets \o PathTargets(path)
          /\ UNCHANGED pc
  /\ UNCHANGED <<tree, asked, dns, moved, moves>>

Loaded ==
  /\ pc = "load" /\ todo = <<>>
  /\ pc' = IF Resolve THEN "resolve" ELSE "ready"
  /\ UNCHANGED <<tree, todo, targets, asked, dns, moved, moves>>

\* The world: a host has these addresses now, whatever it had before.
Answers(host, answer) ==
  /\ dns' = [dns EXCEPT ![host] = answer]
  /\ moved' = IF answer = dns[host] THEN moved
              ELSE moved \cup {i \in asked : targets[i].host = host}

\* Mutant: only IPv4 addresses are kept.
resolve_channel_targets_V4 ==
  \E i \in DOMAIN targets \ asked, answer \in SUBSET Addresses :
    /\ pc = "resolve"
    /\ \A j \in DOMAIN targets \ asked : i <= j
    /\ asked' = asked \cup {i}
    /\ Answers(targets[i].host, answer)
    /\ targets' = [targets EXCEPT ![i].addresses = {a \in answer : a[1] \in {"AF_INET"}}]
    /\ UNCHANGED <<tree, pc, todo, moves>>

\* The targets one by one: what the resolver answers, of the two IP families; an
\* OSError is no answer.
resolve_channel_targets ==
  \E i \in DOMAIN targets \ asked, answer \in SUBSET Addresses :
    /\ pc = "resolve"
    /\ \A j \in DOMAIN targets \ asked : i <= j
    /\ asked' = asked \cup {i}
    /\ Answers(targets[i].host, answer)
    /\ targets' = [targets EXCEPT ![i].addresses = {a \in answer : a[1] \in {"AF_INET", "AF_INET6"}}]
    /\ UNCHANGED <<tree, pc, todo, moves>>

Resolved ==
  /\ pc = "resolve" /\ asked = DOMAIN targets
  /\ pc' = "ready"
  /\ UNCHANGED <<tree, todo, targets, asked, dns, moved, moves>>

\* A host gets other addresses, or the resolver begins or ceases to answer.
Moves ==
  /\ pc = "ready" /\ moves < MaxMoves /\ moves' = moves + 1
  /\ \E host \in Hosts, answer \in SUBSET Addresses : Answers(host, answer)
  /\ UNCHANGED <<tree, pc, todo, targets, asked>>

Next ==
  \/ LoadPath \/ Loaded
  \/ resolve_channel_targets \/ Resolved
  \/ Moves

Spec == Init /\ [][Next]_vars

---------------------------------------------------------------------------------
(* The catalog.                                                                      *)

Units == {targets[i].unit : i \in DOMAIN targets}

\* {target.unit: target for target in targets}: the last target of a unit is its own.
TargetOf(unit) ==
  CHOOSE i \in DOMAIN targets :
    targets[i].unit = unit /\ \A j \in DOMAIN targets : targets[j].unit = unit => j <= i

by_unit == [unit \in Units |-> targets[TargetOf(unit)]]

match(unit, ip, port) ==
  IF unit \notin Units THEN "unknown_unit"
  ELSE LET target == by_unit[unit] IN
       IF target.port # port THEN "unexpected_flow"
       ELSE IF target.addresses # {} /\ ip \notin target.addresses THEN "unexpected_flow"
       ELSE "matched"

---------------------------------------------------------------------------------
(* Properties.                                                                       *)

\* Type correctness of the catalog under construction (channels.py).
TypeOK ==
  /\ tree \in Trees
  /\ pc \in {"load", "resolve", "ready", "failed"}
  /\ todo \in Seq(Paths)
  /\ \A i \in DOMAIN targets :
       /\ targets[i].host \in Hosts /\ targets[i].port \in TargetPorts
       /\ targets[i].addresses \subseteq Addresses
  /\ asked \subseteq DOMAIN targets
  /\ dns \in [Hosts -> SUBSET Addresses]
  /\ moved \subseteq asked /\ moves \in 0 .. MaxMoves

(* What each file says, read line by line and not through the joined text.           *)

\* The line a line continues, itself if none.
StartOf(text, i) ==
  CHOOSE s \in 1 .. i : /\ s = 1 \/ ~text[s - 1].more
                        /\ \A k \in s .. i - 1 : text[k].more

Live(text) == {i \in DOMAIN text : text[StartOf(text, i)].key # "#"}

\* A file a line names: the line stands alone, apart from a backslash that ends the text.
Names1(text, i, inst) ==
  /\ text[i].key = "EnvironmentFile" /\ text[i].file # NoFile /\ text[i].file.inst = inst
  /\ i > 1 => ~text[i - 1].more
  /\ text[i].more => i = Len(text)

UnitNames == Names \cup {<<name[1], instance>> : name \in Names, instance \in Instances}

Owner(path) == IF HomeOf[path[1]] = "none" THEN MyHome ELSE HomeOf[path[1]]

FileOf(path, line, name) ==
  <<IF line.file.place = "home" THEN Owner(path) ELSE line.file.place, name>>

Assigned(file) ==
  IF file \notin DOMAIN tree.env \/ tree.env[file].state # "text" THEN {}
  ELSE UNION {tree.env[file].text[i].urls :
                i \in {j \in DOMAIN tree.env[file].text : tree.env[file].text[j].key = "assign"}}

\* The URL a path gives a unit: of the file itself, or of an instance of a template.
Gives(path, unit, url) ==
  LET text == tree.unit[path].text IN
  /\ path \in DOMAIN tree.unit /\ tree.unit[path].state = "text"
  /\ IF IsTemplate(path)
       THEN \E i \in DOMAIN text :
              /\ Names1(text, i, TRUE) /\ unit[1] = path[2][1]
              /\ Assigned(FileOf(path, text[i], unit[2])) = {url}
              /\ unit[2] \in Instances
       ELSE /\ unit = path[2]
            /\ UNION ({text[i].urls : i \in Live(text)}
                 \cup {Assigned(FileOf(path, text[i], "plain")) :
                        i \in {j \in DOMAIN text : Names1(text, j, FALSE)}}) = {url}

\* The paths that are loaded, if they exist.
Listed(path) ==
  path[1] \in DefaultDirs \cup Range(UnitDirs) \/ path \in Range(UnitFiles)

NameBefore(path, other) ==
  \E m, n \in DOMAIN NameOrder : m < n /\ NameOrder[m] = path[2] /\ NameOrder[n] = other[2]

\* The order in which later paths win: the command line's files and directories as they
\* are named, then the default directories by path, all of them by name.
Overrides(other, path) ==
  \/ /\ other[1] \in DefaultDirs
     /\ path[1] \in DefaultDirs =>
          path[1] < other[1] \/ (path[1] = other[1] /\ NameBefore(path, other))
  \/ /\ {path[1], other[1]} \cap DefaultDirs = {}
     /\ \E i \in DOMAIN UnitDirs :
          /\ UnitDirs[i] = other[1]
          /\ \A j \in DOMAIN UnitDirs : UnitDirs[j] = path[1] =>
               j < i \/ (j = i /\ NameBefore(path, other))
  \/ /\ {path[1], other[1]} \cap (DefaultDirs \cup Range(UnitDirs)) = {}
     /\ \E i \in DOMAIN UnitFiles :
          /\ UnitFiles[i] = other
          /\ \A j \in DOMAIN UnitFiles : UnitFiles[j] = path => j < i

JustLoaded == pc = "load" /\ todo = <<>>

\* load_channel_targets, template_instance_targets and by_unit: once the catalog is
\* loaded, a unit is in it exactly if some file says, on its own lines or in the
\* environment files of the home it lies in, that it has one URL; and its target is
\* what the file that comes last says, whatever the files before and after it are.
LastFileDecides ==
  JustLoaded =>
    /\ \A unit \in Units : \E path \in Paths, url \in Urls :
         /\ Listed(path) /\ Gives(path, unit, url)
         /\ by_unit[unit].host = url.host
         /\ by_unit[unit].port = IF url.port # NoPort THEN url.port
                                 ELSE IF url.scheme = "http" THEN 80 ELSE 443
         /\ \A other \in Paths :
              Listed(other) /\ Overrides(other, path) => \A u \in Urls : ~Gives(other, unit, u)
    /\ \A path \in Paths, unit \in UnitNames, url \in Urls :
         Listed(path) /\ Gives(path, unit, url) => unit \in Units

\* What stops a load: a file that is not UTF-8, or a single URL that is no target.
Bad(path) ==
  /\ Listed(path) /\ path \in DOMAIN tree.unit
  /\ \/ tree.unit[path].state = "undecodable"
     \/ /\ tree.unit[path].state = "text"
        /\ \E i \in DOMAIN tree.unit[path].text, file \in DOMAIN tree.env :
             /\ tree.env[file].state = "undecodable"
             /\ Names1(tree.unit[path].text, i, IsTemplate(path))
             /\ file[2] \in (IF IsTemplate(path) THEN Instances ELSE {"plain"})
             /\ file = FileOf(path, tree.unit[path].text[i], file[2])
     \/ \E unit \in UnitNames, url \in Urls :
          /\ Gives(path, unit, url)
          /\ \/ url.host = "" \/ url.port = BadPort
             \/ url.scheme \notin {"http", "https"} /\ url.port = NoPort

\* load_channel_targets: "A foreign unit with several URLs must not take the whole
\* monitor down" (channels.py:113-114, test_channels.py:26; roadmap.md:56-57 says the
\* opposite, see SeveralUrlsFailTheLoad).  The load fails exactly if some file, wherever
\* it is in the order, is not UTF-8 or has one URL without a host or a usable port;
\* several URLs, in the unit and its environment files together, never stop it, and no
\* bad target slips through.
StopsForABadUrlOnly ==
  /\ pc = "failed" => \E path \in Paths : Bad(path)
  /\ JustLoaded => \A path \in Paths : ~Bad(path)

\* roadmap.md:56-57, of the baseline that is implemented: "extract a single configured URL
\* per unit and fail if a unit contains several URLs".  Once a catalog is loaded, no unit
\* file of it holds several.
SeveralUrlsFailTheLoad ==
  JustLoaded =>
    \A path \in DOMAIN tree.unit :
      LET text == tree.unit[path].text IN
      Listed(path) /\ tree.unit[path].state = "text" /\ ~IsTemplate(path)
        => Cardinality(UNION {text[i].urls : i \in Live(text)}) <= 1

\* resolve_channel_targets and match: as long as the host of a unit has kept the
\* addresses it had when it was resolved, a flow of the unit is "matched" exactly if it
\* goes to the target's port and to one of these addresses, of either family, or the
\* resolver had none.
MatchIsTheResolversAnswer ==
  pc = "ready" /\ Resolve =>
    \A unit \in Units, ip \in Addresses, port \in {url.port : url \in Urls} \cup {80, 443} :
      LET target == by_unit[unit] IN
      TargetOf(unit) \notin moved =>
        (match(unit, ip, port) = "matched" <=>
           /\ port = target.port
           /\ dns[target.host] # {} => ip \in dns[target.host])
=================================================================================
