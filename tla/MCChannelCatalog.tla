---------------------------- MODULE MCChannelCatalog ----------------------------
(* File systems for ChannelCatalog: two unit files anywhere in four directories, and    *)
(* the environment files of two users and of /etc.                                      *)
EXTENDS ChannelCatalog

\* /etc/systemd/user, /home/u/.config/systemd/user, --unit-dir /opt, /usr/lib/systemd/user
Homes4 == <<"none", "u", "none", "none">>
NamedFile == <<<<2, <<"tv", "plain">>>>>>
OptDir == <<3>>
Names3 == <<<<"rec", "">>, <<"rec", "a">>, <<"tv", "plain">>>>
Both == {<<"AF_INET", 1>>, <<"AF_INET6", 1>>}

One    == [scheme |-> "http",  host |-> "h1", port |-> NoPort]
Other  == [scheme |-> "https", host |-> "h2", port |-> NoPort]
Stream == [scheme |-> "udp",   host |-> "h1", port |-> 5004]
Bare   == [scheme |-> "udp",   host |-> "h1", port |-> NoPort]
Blank  == [scheme |-> "http",  host |-> "",   port |-> NoPort]
Zero   == [scheme |-> "udp",   host |-> "h1", port |-> 0]
SomeUrls == {One, Other, Stream, Bare, Blank, Zero}

Line(key, more, urls) == [key |-> key, more |-> more, urls |-> urls, file |-> NoFile]
EnvLine(place, inst, more) ==
  [key |-> "EnvironmentFile", more |-> more, urls |-> {},
   file |-> [place |-> place, inst |-> inst]]

File(text) == [state |-> "text", text |-> text]

PlainTexts == {
  File(<<Line("other", TRUE, {}), Line("other", TRUE, {One})>>),
  File(<<Line("#", TRUE, {Other}), Line("other", FALSE, {One}), Line("Environment", FALSE, {Stream})>>),
  File(<<Line("other", FALSE, {Other}), EnvLine("home", FALSE, TRUE)>>),
  File(<<EnvLine("home", FALSE, FALSE), Line("other", FALSE, {})>>),
  File(<<Line("Environment", FALSE, {Bare})>>),
  File(<<Line("other", FALSE, {Other}), Line("Environment", FALSE, {One})>>),
  File(<<Line("Environment", FALSE, {Zero})>>),
  [state |-> "unreadable", text |-> <<>>],
  [state |-> "undecodable", text |-> <<>>]}

TemplateTexts == {
  File(<<Line("other", FALSE, {Other}), EnvLine("home", TRUE, FALSE), EnvLine("etc", TRUE, FALSE)>>),
  File(<<EnvLine("home", FALSE, FALSE), EnvLine("etc", TRUE, FALSE)>>)}

Texts(path) == IF path[2][2] = "" THEN TemplateTexts ELSE PlainTexts

AllPaths == (DOMAIN Homes4) \X Range(Names3)

UnitTrees ==
  UNION {{files \in [{p, q} -> TemplateTexts \cup PlainTexts] :
            \A r \in {p, q} : files[r] \in Texts(r)} : p \in AllPaths, q \in AllPaths}

Assign(urls) == File(<<Line("#", FALSE, {Other}), Line("assign", FALSE, urls)>>)
Undecoded == [state |-> "undecodable", text |-> <<>>]

EnvTrees == {
  <<>>,
  (<<"u", "plain">> :> Assign({One})) @@ (<<"root", "plain">> :> Assign({Other}))
    @@ (<<"u", "a">> :> Assign({Stream})),
  (<<"u", "a">> :> Assign({One, Other})) @@ (<<"etc", "a">> :> Assign({Other}))
    @@ (<<"u", "plain">> :> Undecoded),
  (<<"etc", "a">> :> Assign({Blank})) @@ (<<"root", "a">> :> Assign({Stream}))}

SomeTrees == [unit : UnitTrees, env : EnvTrees]
=================================================================================
