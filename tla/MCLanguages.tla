------------------------------ MODULE MCLanguages ------------------------------
(***************************************************************************)
(* Small images of each language, what each really has and really          *)
(* loads, and whether what is concluded of them is so.                     *)
(***************************************************************************)
EXTENDS PackageVerdicts, LangInventory, GoModules

S(k, parts) == [kind |-> k, parts |-> parts, up |-> 0, optional |-> FALSE]
Bare(parts) == S("bare", parts)
Near(parts) == S("relative", parts)
Src(specs) == [specs |-> specs, computed |-> FALSE, discovery |-> FALSE]
Computed(specs) == [specs |-> specs, computed |-> TRUE, discovery |-> FALSE]
Discovers == [specs |-> <<>>, computed |-> FALSE, discovery |-> TRUE]

Arg(k) == [kind |-> k, path |-> <<>>, parts |-> <<>>]
Script(p) == [kind |-> "script", path |-> p, parts |-> <<>>]
ModuleArg(n) == [kind |-> "module", path |-> <<>>, parts |-> n]

-----------------------------------------------------------------------------
(* Node: /app/server.js, the packages mid, left and deep, and a second copy *)
(* of left inside mid.                                                     *)

Names == {<<"mid">>, <<"left">>, <<"deep">>, <<"flask">>, <<"jinja">>, <<"data">>, <<"log">>, <<"ghost">>}
NM == <<"app", "node_modules">>
Mid == NM \o <<"mid">>
MidNM == Mid \o <<"node_modules">>
Server == <<"app", "server", ".js">>
Bundle == <<"srv", "bundle", ".js">>
DeepBin == NM \o <<"deep", "bin", "run">>
ManifestOf(name, deps) ==
  [name |-> name, main |-> <<>>, bins |-> {}, exports |-> << >>, deps |-> deps]

AppSources == {Src(<<Bare(<<"mid">>)>>), Src(<<Bare(<<"left">>), Bare(<<"fs">>), Near(<<"server">>)>>),
               Src(<<Near(<<"util">>), Bare(<<"nowhere">>), Bare(<<"mid", "lib", "x">>)>>),
               Src(<<Bare(<<"left", "gone">>)>>), Computed(<<>>)}
MidSources == {Src(<<Bare(<<"left">>)>>), Src(<<Bare(<<"deep">>), Near(<<"lib", "x">>)>>), Computed(<<>>)}

NodeTree(nested, broken) ==
  LET pkgs == {Mid, NM \o <<"deep">>, NM \o <<"left">>}
                \cup (IF nested THEN {MidNM \o <<"left">>} ELSE {})
  IN  [dirs |-> {<<>>, <<"app">>, <<"srv">>, NM, Mid \o <<"lib">>} \cup pkgs
                  \cup (IF nested THEN {MidNM} ELSE {}),
       files |-> {Server, <<"app", "util", ".js">>, Bundle, Mid \o <<"lib", "x", ".js">>, DeepBin}
                   \cup {p \o <<"index", ".js">> : p \in pkgs},
       unlistable |-> {}, scopeDirs |-> {}, hasManifest |-> pkgs,
       manifest |-> [p \in IF broken THEN pkgs \ {NM \o <<"deep">>} ELSE pkgs |->
                       ManifestOf(<<Last(p)>>, IF p = Mid THEN {<<"left">>}
                                               ELSE IF Last(p) = "left" THEN {<<"deep">>} ELSE {})]]

RunLink == <<"usr", "bin", "run">>

\* What really is in the tree for each name, whoever could read its manifest.
TrueNodeFiles(tree, n) ==
  {f \in tree.files :
     \E p \in tree.hasManifest : /\ <<Last(p)>> = n /\ IsPrefix(p, f)
                                 /\ \A q \in tree.hasManifest : IsPrefix(q, f) => IsPrefix(q, p)}

NodeImage(nested, broken, app, mid, unread) ==
  LET tree == NodeTree(nested, broken)
      inv == ReadNPM(tree)
  IN  [dirs |-> tree.dirs, files |-> tree.files, manifest |-> tree.manifest,
       scripts |-> {DeepBin, RunLink}, large |-> {}, unread |-> unread,
       source |-> [f \in tree.files |->
                     CASE f = Server -> app
                       [] f = Mid \o <<"index", ".js">> -> mid
                       [] f = <<"app", "util", ".js">> -> Src(<<Near(<<"server">>), Bare(<<"deep">>)>>)
                       [] f = DeepBin ->
                            Src(<<[Near(<<"index">>) EXCEPT !.up = 1]>>)
                       [] OTHER -> Src(<<>>)],
       packages |-> inv.packages, unreadable |-> inv.unreadable, unidentified |-> inv.unidentified,
       owners |-> tree.hasManifest, has |-> [n \in Names |-> TrueNodeFiles(tree, n)]]

Command(kind, args, program, script, starts) ==
  [command |-> kind, args |-> args, program |-> program, script |-> script, starts |-> starts]

NodeCommands ==
  {Command("none", <<>>, <<>>, "", {}),
   Command("interpreter", <<Arg("flag"), Arg("valued"), Script(<<"x">>), Script(<<"server">>)>>, <<>>, "", {Server}),
   Command("interpreter", <<Arg("eval"), Script(<<"server">>)>>, <<>>, "", {}),
   Command("interpreter", <<Script(<<"lost">>)>>, <<>>, "", {}),
   Command("manager", <<Script(<<"server", ".js">>)>>, <<>>, "node", {Server}),
   Command("manager", <<>>, <<>>, "sh", {}),
   Command("program", <<>>, RunLink, "", {DeepBin}),
   Command("interpreter", <<Script(<<"srv", "bundle">>)>>, <<>>, "", {Bundle})}
NodeImages ==
  {NodeImage(n, b, app, mid, {}) : n \in BOOLEAN, b \in BOOLEAN, app \in AppSources, mid \in MidSources}
    \cup {NodeImage(FALSE, FALSE, Src(<<Bare(<<"mid">>)>>), mid, {Mid \o <<"lib", "x", ".js">>}) : mid \in MidSources}

-----------------------------------------------------------------------------
(* Python: /srv/main.py and the distributions flask, jinja and data, with   *)
(* jinja's metadata and the .pth files in several states.                  *)

Site == <<"site">>
Main == <<"srv", "main", ".py">>
Flask == Site \o <<"flask", "__init__", ".py">>
Fast == Site \o <<"flask", "fast", ".pyc">>
Ext == <<"jinja", "ext", ".py">>
Hook == Site \o <<"sitecustomize", ".py">>
PyRun == <<"site", "bin", "serve">>

Dist(name, record, topLevel, requires, metadata, entryPoints) ==
  [name |-> name, dirName |-> name, root |-> Site, dir |-> Site \o <<name[1], "dist-info">>, record |-> record,
   topLevel |-> topLevel, requires |-> requires, metadata |-> metadata, entryPoints |-> entryPoints]

\* jinja: recorded; recorded with an entry point; not recorded, with a half of it
\* elsewhere; its metadata unread; requiring what is not installed.
JinjaDists ==
  LET files == {Site \o <<"jinja", "__init__", ".py">>, Site \o Ext}
  IN  {Dist(<<"jinja">>, files, {}, {}, TRUE, <<>>),
       Dist(<<"jinja">>, files, {}, {}, TRUE, <<<<"jinja", "ext">>>>),
       Dist(<<"jinja">>, {}, {}, {}, TRUE, <<>>),
       Dist(<<"jinja">>, files, {<<"jinja">>}, {}, FALSE, <<>>),
       Dist(<<"jinja">>, files, {}, {[name |-> <<"speed">>, conditional |-> TRUE],
                                     [name |-> <<"markup">>, conditional |-> FALSE]}, TRUE, <<>>)}

PthLine(k, dir, parts) == [kind |-> k, dir |-> dir, parts |-> parts]
PthFiles ==
  {<<>>, <<PthLine("dir", <<"opt">>, <<>>)>>, <<PthLine("import", <<>>, <<"jinja">>)>>,
   <<PthLine("code", <<>>, <<>>)>>, <<PthLine("unread", <<>>, <<>>)>>}

PyAppSources ==
  {Src(<<Bare(<<"flask">>), Bare(<<"sys">>), Bare(<<"os">>)>>), Src(<<Bare(<<"jinja", "ext">>)>>),
   Src(<<Bare(<<"flask", "fast">>)>>), Src(<<Bare(<<"jinja", "gone">>)>>), Computed(<<>>), Discovers}
FlaskSources ==
  {Src(<<>>), Src(<<Bare(<<"jinja">>)>>), Src(<<Near(<<"helpers">>)>>), Computed(<<>>), Discovers}

PyImage(app, flask, jinja, pth, hook) ==
  LET half == jinja.record = {}
      code == {Flask, Fast, Site \o <<"flask", "helpers", ".py">>, Site \o <<"jinja", "__init__", ".py">>,
               IF half THEN <<"opt">> \o Ext ELSE Site \o Ext,
               Site \o <<"data", "table", ".txt">>}
      files == code \cup {Main, PyRun, <<"std", "os", ".py">>} \cup (IF hook THEN {Hook} ELSE {})
      tree == [files |-> files,
               dists |-> {jinja,
                          Dist(<<"flask">>, {f \in code : "flask" \in ToSet(f)}, {},
                               {[name |-> <<"jinja">>, conditional |-> FALSE]}, TRUE, <<>>),
                          Dist(<<"data">>, {Site \o <<"data", "table", ".txt">>}, {}, {}, TRUE, <<>>)}]
      inv == ReadPyPI(tree)
  IN  [files |-> files, dirs |-> {DirOf(f) : f \in files}, pythonpath |-> {}, stdlib |-> {<<"std">>},
       siteRoots |-> {Site}, pth |-> pth, scripts |-> {PyRun}, large |-> {}, unread |-> {},
       source |-> [f \in files |->
                     CASE f = Main -> app [] f = Flask -> flask
                       [] f = PyRun -> Src(<<Bare(<<"data">>), Bare(<<"flask">>)>>)
                       [] f = Hook -> Src(<<Bare(<<"jinja", "ext">>)>>)
                       [] f = Site \o <<"flask", "helpers", ".py">> ->
                            Src(<<[S("relative", <<"jinja">>) EXCEPT !.up = 1], [Bare(<<"fast_c">>) EXCEPT !.optional = TRUE]>>)
                       [] OTHER -> Src(<<>>)],
       packages |-> inv.packages, unreadable |-> inv.unreadable, unidentified |-> inv.unidentified,
       has |-> [n \in Names |-> {f \in code : n[1] \in ToSet(f)}]]

PyCommands ==
  {Command("none", <<>>, <<>>, "", {}),
   Command("interpreter", <<Arg("valued"), Script(<<"x">>), Script(Main)>>, <<>>, "", {Main}),
   Command("interpreter", <<ModuleArg(<<"flask">>)>>, <<>>, "", {Flask}),
   Command("interpreter", <<Arg("eval")>>, <<>>, "", {}),
   Command("program", <<>>, PyRun, "", {PyRun}),
   Command("program", <<>>, <<"usr", "bin", "sh">>, "", {})}

PyImages ==
  LET plain == CHOOSE d \in JinjaDists : d.record # {} /\ d.entryPoints = <<>> /\ d.metadata /\ d.requires = {}
      web == Src(<<Bare(<<"flask">>)>>)
  IN  {PyImage(app, flask, plain, <<>>, FALSE) : app \in PyAppSources, flask \in FlaskSources}
        \cup {PyImage(web, flask, d, <<>>, FALSE) : flask \in FlaskSources, d \in JinjaDists}
        \cup {PyImage(Src(<<Bare(<<"jinja", "ext">>)>>), Src(<<>>), d, pth, hook) :
                d \in {plain} \cup {x \in JinjaDists : x.record = {}}, pth \in PthFiles, hook \in BOOLEAN}
        \cup {PyImage(Src(<<>>), Src(<<>>), plain, pth, hook) : pth \in PthFiles, hook \in BOOLEAN}

-----------------------------------------------------------------------------
(* Java: archives that say what they are, suggest it, hide it, or do not    *)
(* open; truth is the artifact that they are.                              *)

Class(c) == <<"org", "log", c, ".class">>
Archive(path, opens, stated, suggested, classes, truth) ==
  [path |-> <<path, "jar">>, opens |-> opens, stated |-> stated, suggested |-> suggested,
   entries |-> {Class(c) : c \in classes} \cup {<<"LICENSE">>}, platform |-> FALSE,
   nested |-> {}, truth |-> truth]
Log == <<"log">>
Archives ==
  {Archive("log", TRUE, {Log}, {}, {"Logger", "Lookup"}, Log), Archive("log", TRUE, {Log}, {}, {"Logger"}, Log),
   Archive("log", TRUE, {Log}, {}, {}, Log), Archive("log", TRUE, {}, {Log}, {"Logger"}, <<"log-api">>),
   Archive("x", TRUE, {}, {}, {"Logger", "Lookup"}, Log), Archive("y", FALSE, {}, {}, {"Lookup"}, Log)}
Fat(n) == [Archive("fat", TRUE, {<<"app">>}, {}, {"Main"}, <<"app">>) EXCEPT !.nested = {n}]
Runtime == [Archive("rt", TRUE, {}, {}, {"Object"}, <<"jdk">>) EXCEPT !.platform = TRUE]

JavaImage(archives) ==
  LET inv == ReadMaven([archives |-> archives])
      all == archives \cup UNION {a.nested : a \in archives}
  IN  [files |-> {}, packages |-> inv.packages, unreadable |-> inv.unreadable,
       unidentified |-> inv.unidentified,
       has |-> [n \in Names |-> UNION {a.entries : a \in {b \in all : b.truth = n}}]]

\* A second copy of an artifact that hides itself beside one that does not is left out.
JavaImages ==
  {JavaImage(S0) : S0 \in {{a} : a \in Archives} \cup {{Fat(a), Runtime} : a \in Archives} \cup {{Runtime}}}
    \cup {JavaImage({Archive("log", TRUE, {}, {Log}, {"Logger"}, <<"log-api">>),
                     Archive("x", TRUE, {}, {}, {"Lookup"}, Log)})}

-----------------------------------------------------------------------------
(* Go: small images of binaries and small source trees, what each really   *)
(* links at which version.                                                 *)

V(major, minor) == <<major, minor, 0, 0>>
Stamp(of, v) == [of |-> of, name |-> "version", version |-> v]
Dep(path, v) == [path |-> path, version |-> v, replace |-> <<>>]
ReplacedDep(path, by, v) == [path |-> path, version |-> V(1, 0), replace |-> <<Dep(by, v)>>]

GoAdvisories ==
  {[id |-> "app-fixed", module |-> "app", pkgs |-> {"app/run"}, fixed |-> V(1, 2)],
   [id |-> "app-open", module |-> "app", pkgs |-> {"app/run"}, fixed |-> V(1, 3)],
   [id |-> "app-all", module |-> "app", pkgs |-> {}, fixed |-> V(1, 3)],
   [id |-> "lib-open", module |-> "lib", pkgs |-> {"lib/a", "lib/b"}, fixed |-> V(1, 2)],
   [id |-> "api-fixed", module |-> "api", pkgs |-> {"api/v1"}, fixed |-> V(0, 2)],
   [id |-> "api-open", module |-> "api", pkgs |-> {}, fixed |-> V(0, 4)],
   [id |-> "std-open", module |-> "stdlib", pkgs |-> {"net"}, fixed |-> V(1, 24)]}

-----------------------------------------------------------------------------
(* Images: app at 1.2 or the release candidate of it, kubernetes at 1.3,    *)
(* which has api at 0.3 in its tree, and a second binary beside them.       *)

Bin(path, main, mainVersion, flags, symbols, stripped, deps, pkgs, truth) ==
  [path |-> path, main |-> main, mainVersion |-> mainVersion, goVersion |-> V(1, 23), flags |-> flags,
   symbols |-> symbols, stripped |-> stripped, readable |-> TRUE, deps |-> deps, pkgs |-> pkgs,
   modules |-> DOMAIN truth, notAffected |-> {"lib-open"}, truth |-> truth]
GoImage(bins, argv, tag, namedAfter) ==
  [bins |-> bins, argv |-> argv, tag |-> tag, namedAfter |-> namedAfter]
Tag(kind, v) == [kind |-> kind, version |-> v]
Word(paths) == [option |-> FALSE, paths |-> paths]
Option == [option |-> TRUE, paths |-> {}]

OwnStamps == {{}, {Stamp("app", V(1, 2))}, {Stamp("lib", V(1, 9))},
              {Stamp("main", V(1, 2)), Stamp("lib", V(1, 9)), [Stamp("app", V(1, 9)) EXCEPT !.name = "goversion"]},
              {Stamp("main", V(1, 2)), Stamp("app", V(1, 9))}}

AppBin(mainVersion, flags, stripped, version) ==
  Bin("/app", "app", mainVersion, flags, {Stamp("app", version), Stamp("lib", V(1, 9))}, stripped,
      {Dep("lib", V(1, 1))}, {"app/run", "lib/b", "net"},
      [m \in {"app", "lib", "stdlib"} |-> CASE m = "app" -> version [] m = "lib" -> V(1, 1) [] OTHER -> V(1, 23)])

\* The second binary has app among its dependencies, or a fork of lib.
SideBin(deps, pkgs, app) ==
  Bin("/side", "side", V(2, 0), {}, {}, TRUE, deps, pkgs,
      [m \in {"side", "stdlib"} \cup app |->
         CASE m = "app" -> V(1, 2) [] m = "side" -> V(2, 0) [] OTHER -> V(1, 23)])
SideBins ==
  {SideBin({Dep("app", v)}, {"app/run"}, {"app"}) : v \in {Devel, V(1, 2)}}
    \cup {SideBin({ReplacedDep("lib", "fork", V(5, 0))}, {"net"}, {})}

\* What an image is called and runs, and what its tag then says of app.
Commands ==
  {<<<<Word({"/app"})>>, {}>>, <<<<Word({"/init"}), Word({"/app"}), Option, Word({"/side"})>>, {}>>,
   <<<<Option, Word({"/app"})>>, {"app"}>>}
AppTags == {Tag("semver", V(1, 2)), Tag("packaged", V(1, 2)), Tag("latest", Devel), Tag("partial", V(9, 0))}

Plain == <<Word({"/app"})>>
AppImages ==
  {GoImage({AppBin(mv, f, s, V(1, 2))}, Plain, t, {}) :
     mv \in {Devel, V(1, 2), <<0, 0, 0, 0>>}, f \in OwnStamps, s \in BOOLEAN,
     t \in {Tag("semver", V(1, 2)), Tag("latest", Devel)}}
  \cup {GoImage({AppBin(Devel, f, TRUE, V(1, 2)), b}, c[1], t, c[2]) :
          f \in {{}, {Stamp("app", V(1, 2))}}, b \in SideBins, c \in Commands, t \in AppTags}
  \cup {GoImage({AppBin(Devel, {}, s, <<1, 2, 0, -1>>)}, Plain, Tag("rc", V(1, 2)), {}) : s \in BOOLEAN}
  \cup {GoImage({AppBin(Devel, f, s, V(1, 2))}, <<Word({"/python"}), Word({"/x"})>>, Tag("semver", V(3, 12)), {}) :
          f \in OwnStamps, s \in BOOLEAN}

KubeImages ==
  {GoImage({Bin("/kubelet", Kubernetes, mv, {}, {}, TRUE, {Dep("api", v), Dep("lib", V(1, 1))}, {"api/v1", "lib/a", "net"},
                [m \in {"api", "lib", "stdlib"} |-> CASE m = "api" -> V(0, 3) [] m = "lib" -> V(1, 1) [] OTHER -> V(1, 23)])},
           <<Word({"/kubelet"})>>, t, {}) :
     mv \in {Devel, V(1, 3)}, v \in {Devel, V(0, 3)}, t \in {Tag("semver", V(1, 3)), Tag("latest", Devel)}}

GoImages == AppImages \cup KubeImages
Asks == {<<>>, <<"app">>, <<"lib", "stdlib">>, <<"api", "app">>}

GoScans ==
  {[lang |-> "go", image |-> im, names |-> n, override |-> Unstated, govulncheck |-> g] :
     im \in GoImages, n \in Asks, g \in {FALSE}}
    \cup {[lang |-> "go", image |-> im, names |-> <<>>, override |-> Unstated, govulncheck |-> TRUE] :
             im \in GoImages}

-----------------------------------------------------------------------------
(* Source trees                                                            *)

Stmt(ids, display, module, says) == [ids |-> ids, display |-> display, module |-> module, says |-> says]
Words == {"affected", "not_in_execute_path", "not_present"}
SourceTrees ==
  {<<Stmt({"GO-1", "CVE-1"}, "CVE-1", "app", a), Stmt({"GO-2"}, "GO-2", "app", b),
     Stmt({"GO-3", "CVE-3"}, "CVE-3", "lib", c)>> : a \in Words, b \in Words, c \in Words}
  \cup {<<>>, <<Stmt({"GO-3", "CVE-3"}, "CVE-3", "lib", "affected")>>}
SourceScans ==
  {[lang |-> "gosource", stmts |-> t, names |-> n, requested |-> r] :
     t \in SourceTrees, n \in {<<>>, <<"app">>, <<"app", "lib">>}, r \in {{}, {"CVE-1", "GO-2"}, {"CVE-3", "CVE-9"}}}

-----------------------------------------------------------------------------
(* Whether it is so                                                         *)

FindingsOf(sc) ==
  GoFindings(sc.image, Links(sc.image, sc.names, sc.override), GoAdvisories, sc.govulncheck)
Asked(sc, m) == sc.names = <<>> \/ m \in ToSet(sc.names)
LinksCode(bin, a) == IF a.pkgs = {} THEN a.module \in bin.modules ELSE a.pkgs \cap bin.pkgs # {}
Exposed(bin, a) == a.module \in DOMAIN bin.truth /\ Below(bin.truth[a.module], a.fixed) /\ LinksCode(bin, a)

ExposureSaid(sc) ==
  \A b \in sc.image.bins : \A a \in GoAdvisories :
    Exposed(b, a) /\ Asked(sc, a.module) =>
      \E f \in FindingsOf(sc) :
        /\ f.path = b.path /\ f.id = a.id
        /\ f.status \in {"linked", "undetermined"} \/ (f.status = "not_in_path" /\ a.id \in b.notAffected)

LinkedTruly(sc) ==
  \A f \in FindingsOf(sc) : \A b \in sc.image.bins : \A a \in GoAdvisories :
    f.path = b.path /\ f.id = a.id /\ f.status = "linked" /\ a.module # b.main => Exposed(b, a)

\* The versions that a binary's build info states.
StatedBy(b) ==
  {<<Stdlib, b.goVersion>>, <<b.main, b.mainVersion>>}
    \cup {<<d.path, d.version>> : d \in {Effective(e) : e \in b.deps}}
RecoveryMarked(sc) ==
  \A f \in FindingsOf(sc) : \A b \in sc.image.bins :
    f.path = b.path => f.inferred \/ <<f.module, f.version>> \in StatedBy(b)

AgreesWithAll(sc) ==
  sc.names # <<>> =>
    LET all == FindingsOf([sc EXCEPT !.names = <<>>])
        plain(f) == [path |-> f.path, id |-> f.id, version |-> f.version, status |-> f.status]
        replaced == UNION {{e.path : e \in {d \in b.deps : d.replace # <<>>}} : b \in sc.image.bins}
        names == ToSet(sc.names) \ replaced
    IN  {plain(f) : f \in {g \in FindingsOf(sc) : g.module \in names}}
          = {plain(f) : f \in {g \in all : g.module \in names}}

SourceTruthful(sc) ==
  LET found == AnalyzeSource(sc.stmts, sc.names, sc.requested)
      of(m, id) == {i \in DOMAIN sc.stmts : sc.stmts[i].module = m /\ id \in sc.stmts[i].ids}
  IN  /\ \A f \in found : f.status \in {"not_present", "not_in_path"} =>
           /\ \E i \in DOMAIN sc.stmts : sc.stmts[i].module = f.module
           /\ \A i \in of(f.module, f.id) : sc.stmts[i].says # "affected"
      /\ \A i \in DOMAIN sc.stmts :
           sc.stmts[i].says = "affected" /\ (sc.names = <<>> \/ sc.stmts[i].module \in ToSet(sc.names))
             /\ (sc.requested = {} \/ sc.requested \cap sc.stmts[i].ids # {}) =>
           \E f \in found : f.module = sc.stmts[i].module /\ f.id \in sc.stmts[i].ids /\ f.status = "reachable"

-----------------------------------------------------------------------------
(* The scans                                                               *)

Scan(lang, im, cmd, roots, policy, trust, meta) ==
  [lang |-> lang, image |-> im, command |-> cmd.command, args |-> cmd.args, program |-> cmd.program,
   script |-> cmd.script, starts |-> cmd.starts, workdir |-> <<"app">>, roots |-> roots,
   policy |-> policy, trust |-> trust, meta |-> meta]
Explicit(k, parts) == <<[kind |-> k, parts |-> parts]>>

NodeRootChoices == {<<>>, Explicit("path", Server), Explicit("name", <<"deep">>)}
PyRootChoices == {<<>>, Explicit("name", <<"jinja">>)}
NoCommand == Command("none", <<>>, <<>>, "", {})

\* Every command with nothing else said, and what the user says with those it is
\* said with: the roots of a command that cannot be followed, and that computed
\* imports load nothing.
Unsaid(c) == c.starts = {} /\ c.args = <<>>
Evals(c) == c.args # <<>> /\ c.args[1].kind = "eval"
PlainScans ==
  {Scan("node", i, c, <<>>, "report", TRUE, FALSE) : i \in NodeImages, c \in NodeCommands}
    \cup {Scan("node", i, c, r, "report", TRUE, FALSE) : i \in NodeImages,
            c \in {x \in NodeCommands : Unsaid(x)}, r \in NodeRootChoices}
    \cup {Scan("node", i, c, <<>>, "assume-none", TRUE, FALSE) : i \in NodeImages,
            c \in {x \in NodeCommands : x.command = "interpreter" /\ ~Evals(x)}}
    \cup {Scan("python", i, c, <<>>, "report", TRUE, FALSE) : i \in PyImages, c \in PyCommands}
    \cup {Scan("python", i, c, <<>>, "assume-none", TRUE, FALSE) : i \in PyImages,
            c \in {x \in PyCommands : x.starts # {} /\ ~Evals(x)}}
    \cup {Scan("python", i, c, r, "report", TRUE, FALSE) : i \in PyImages,
            c \in {x \in PyCommands : Unsaid(x)}, r \in PyRootChoices}
    \cup {Scan("java", i, NoCommand, <<>>, "report", TRUE, FALSE) : i \in JavaImages}
    \cup {Scan("node", i, NoCommand, <<>>, "report", TRUE, TRUE) : i \in {j \in NodeImages : j.unreadable = {}}}

MCIsModule(sc, f) == IF sc.lang = "node" THEN NodeIsModule(f) ELSE PyIsModule(f)
MCNeedsGraph(sc) == sc.lang \in {"node", "python"} /\ ~sc.meta
MCCanon(sc, f) == IF f = RunLink THEN DeepBin ELSE f
MCDotted == << >>
MCScopes == {}
MCNodeBuiltins == {"fs"}
MCPyBuiltins == {"sys"}

-----------------------------------------------------------------------------
(* What a program really loads, whatever the closure makes of it: an upper   *)
(* bound, which is everything when what it does cannot be known.  What the  *)
(* user asserts, that computed imports load nothing, is taken as true.      *)

Asserted(sc) == sc.policy = "assume-none"

\* Node's own rule: the nearest node_modules above that has the package.
TrueHome(im, f, pkg) ==
  LET homes == {SubSeq(f, 1, n) \o <<"node_modules">> \o pkg : n \in 0 .. Len(f) - 1} \cap im.dirs
  IN  {h \in homes : \A o \in homes : Len(o) <= Len(h)}
At(im, path) == {g \in im.files : Front(g) \in {path, Append(path, "index")} \/ g = path}
TrueNodeTargets(sc, im, f, s) ==
  CASE s.kind = "relative" -> At(im, Up(DirOf(f), s.up) \o s.parts)
    [] s.kind = "bare" /\ s.parts[1] \notin NodeBuiltins ->
         LET there == UNION {At(im, h \o Tail(s.parts)) : h \in TrueHome(im, f, <<s.parts[1]>>)}
         IN  IF there # {} \/ <<s.parts[1]>> \notin Names THEN there ELSE im.has[<<s.parts[1]>>]
    [] OTHER -> {}

\* What a package's code can require under a name it computes: what it declares,
\* and what that declares; nobody knows what an application can.
NodeOwner(im, f) == {p \in im.owners : IsPrefix(p, f) /\ \A q \in im.owners : IsPrefix(q, f) => IsPrefix(q, p)}
NodeDeclared(im, d) ==
  IF d \in DOMAIN im.manifest
  THEN UNION {TrueHome(im, Append(d, "package.json"), dep) : dep \in im.manifest[d].deps} ELSE {}
NodeReach(im, d) ==
  LET one == {d} \cup NodeDeclared(im, d)
      two == one \cup UNION {NodeDeclared(im, e) : e \in one}
  IN  two \cup UNION {NodeDeclared(im, e) : e \in two}

NodeOpen(im, f) ==
  \/ f \in im.unread \/ f = Bundle
  \/ f \in DOMAIN im.source /\ im.source[f].computed /\
       (NodeOwner(im, f) = {} \/ \E d \in NodeOwner(im, f) : \E e \in NodeReach(im, d) : e \notin DOMAIN im.manifest)
NodeLoads(sc, im, f) ==
  LET src == im.source[f]
      bounded == UNION {UNION {{g \in im.files : IsPrefix(e, g)} : e \in NodeReach(im, d)} : d \in NodeOwner(im, f)}
  IN  UNION {TrueNodeTargets(sc, im, f, src.specs[i]) : i \in DOMAIN src.specs}
        \cup (IF src.computed /\ ~Asserted(sc) THEN bounded ELSE {})

\* The interpreter's rule: every package above a module is run before it.
TruePath(sc, im) ==
  BaseSearch(im) \cup {im.pth[i].dir : i \in DOMAIN im.pth} \cup {DirOf(f) : f \in sc.starts}
PyAt(im, dir, parts) ==
  {f \in im.files : \/ Front(f) = dir \o parts
                    \/ \E n \in 1 .. Len(parts) : f = dir \o SubSeq(parts, 1, n) \o <<"__init__", ".py">>}
TruePyTargets(sc, im, f, s) ==
  CASE s.kind = "relative" -> PyAt(im, Up(DirOf(f), s.up), s.parts)
    [] s.kind = "bare" /\ s.parts[1] \notin PyBuiltins ->
         LET there == UNION {PyAt(im, d, s.parts) : d \in TruePath(sc, im)}
             whole == \E g \in there : Last(Front(g)) = Last(s.parts) \/ Len(s.parts) = 1
         IN  IF whole \/ <<s.parts[1]>> \notin Names THEN there ELSE im.has[<<s.parts[1]>>]
    [] OTHER -> {}

PyOwner(im, f) == {n \in Names : f \in im.has[n]}
DistsOf(im, names) == {p \in Pkgs(im) : p.name \in names}
PyReach(im, names) ==
  LET more(S1) == S1 \cup {r.name : r \in UNION {d.requires : d \in DistsOf(im, S1)}} IN more(more(names))
PyOpen(sc, im, f) ==
  \/ ExtOf(f) = ".pyc"
  \/ f \in DOMAIN im.source /\ ~Asserted(sc) /\ im.source[f].computed /\
       (\/ PyOwner(im, f) = {}
        \/ \E n \in PyReach(im, PyOwner(im, f)) :
             \/ DistsOf(im, {n}) = {} /\ n # <<"speed">>
             \/ \E d \in DistsOf(im, {n}) : ~d.requiresKnown)
  \/ f \in DOMAIN im.source /\ im.source[f].discovery /\ \A p \in Pkgs(im) : p.entryPoints = <<>>
PyLoads(sc, im, f) ==
  LET src == im.source[f]
      plugins == UNION {UNION {PyAt(im, d, p.entryPoints[1]) : d \in TruePath(sc, im)} :
                          p \in {q \in Pkgs(im) : q.entryPoints # <<>>}}
  IN  UNION {TruePyTargets(sc, im, f, src.specs[i]) : i \in DOMAIN src.specs}
        \cup (IF src.discovery THEN plugins ELSE {})
        \cup (IF src.computed /\ ~Asserted(sc) THEN UNION {im.has[n] : n \in PyReach(im, PyOwner(im, f)) \cap Names} ELSE {})

\* Where it starts: the command, what the user names, and the interpreter's hooks.
TrueStarts(sc, im) ==
  sc.starts
    \cup UNION {IF e.kind = "path" THEN {e.parts} \cap im.files
                ELSE IF sc.lang = "node" THEN UNION {At(im, h) : h \in TrueHome(im, sc.workdir \o <<"x">>, e.parts)}
                ELSE UNION {PyAt(im, d, e.parts) : d \in TruePath(sc, im)} : e \in ToSet(sc.roots)}
    \cup (IF sc.lang = "python"
          THEN ({Hook} \cap im.files) \cup
               UNION {UNION {PyAt(im, d, im.pth[i].parts) : d \in TruePath(sc, im)} :
                        i \in {j \in DOMAIN im.pth : im.pth[j].kind = "import"}}
          ELSE {})

\* A command nobody can follow may start anything, unless the user says what it
\* starts; nor can a text on the command line be.
StartsUnknown(sc, im) ==
  LET eval == \E i \in DOMAIN sc.args : sc.args[i].kind = "eval"
      lost == sc.command = "interpreter" /\ ~eval /\ sc.starts = {}
  IN  \/ sc.starts = {} /\ ~eval /\ (sc.roots = <<>> \/ lost)
      \/ sc.starts = {} /\ eval
      \/ sc.lang = "python" /\ \E i \in DOMAIN im.pth : \/ im.pth[i].kind = "unread"
                                                        \/ im.pth[i].kind = "code" /\ ~Asserted(sc)

TrueLoaded(sc) ==
  LET im == sc.image
      Opens(f) == IF sc.lang = "node" THEN NodeOpen(im, f) /\ (f \in im.unread \/ f = Bundle \/ ~Asserted(sc))
                  ELSE PyOpen(sc, im, f)
      Loads(f) == IF sc.lang = "node" THEN NodeLoads(sc, im, f) ELSE PyLoads(sc, im, f)
      walk[n \in 0 .. 6] == LET before == walk[n - 1]
                            IN  IF n = 0 THEN TrueStarts(sc, im)
                                ELSE before \cup UNION {Loads(f) : f \in before}
      loaded == walk[6]
  IN  IF StartsUnknown(sc, im) \/ \E f \in loaded : Opens(f) THEN im.files ELSE loaded

-----------------------------------------------------------------------------
(* A scan with what the language says of it and what it really loads.       *)

RootsSaid(sc) ==
  CASE sc.lang = "node" -> NodeRoots(sc.image, sc)
    [] sc.lang = "python" -> PyRoots(sc.image, sc)
    [] sc.lang = "java" -> Start(<<>>, {})
ImportsSaid(sc, f) == IF sc.lang = "node" THEN NodeImports(sc.image, f) ELSE PyImports(sc.image, f)
ResolveSaid(sc, f, s) == IF sc.lang = "node" THEN NodeResolve(sc.image, f, s) ELSE PyResolve(sc.image, sc, f, s)

Said(sc) ==
  LET imports == [f \in sc.image.files |-> ImportsSaid(sc, f)]
  IN  [start |-> RootsSaid(sc), imports |-> imports, loaded |-> TrueLoaded(sc),
       resolved |-> [f \in sc.image.files |-> [s \in ToSet(imports[f].specs) |-> ResolveSaid(sc, f, s)]]]
MCScans == GoScans \cup SourceScans \cup {sc @@ Said(sc) : sc \in PlainScans}

MCRoots(sc) == sc.start
MCImports(sc, f) == IF f \in DOMAIN sc.imports THEN sc.imports[f] ELSE NoImports
MCResolve(sc, f, s) == sc.resolved[f][s]

-----------------------------------------------------------------------------
(* What is concluded, and whether it is so                                  *)

Hint(parts, literal) == [literal |-> literal, parts |-> parts, symbol |-> FALSE, classShaped |-> TRUE]
HintsFor(name) ==
  {{}} \cup (CASE name = <<"mid">> -> {{Hint(<<"mid", "lib", "x">>, TRUE)}, {Hint(<<"mid", "lost">>, TRUE)}}
               [] name = <<"jinja">> -> {{Hint(<<"jinja", "ext">>, TRUE)}, {Hint(<<"jinja", "ext">>, FALSE)},
                                         {Hint(<<"jinja", "sandbox">>, TRUE)}}
               [] name = <<"log">> -> {{Hint(<<"log", "Lookup">>, TRUE)}, {Hint(<<"log", "Lost">>, TRUE)}}
               [] OTHER -> {})
Advisories(name) ==
  {[mapped |-> TRUE, hints |-> h] : h \in HintsFor(name)} \cup {[mapped |-> FALSE, hints |-> {}]}

\* The files that the text of an advisory means.
Meant(sc, name, m) ==
  {f \in {g \in sc.image.has[name] : IsCode(sc.lang, g)} :
     LET at == Front(f)
     IN  CASE sc.lang = "node" -> IsSuffix(Tail(m.parts), at)
           [] sc.lang = "python" -> IsSuffix(m.parts, at) \/ IsSuffix(Append(m.parts, "__init__"), at)
           [] OTHER -> Last(at) = Last(m.parts)}
MeantBy(sc, name, hints) == UNION {Meant(sc, name, m) : m \in hints}

NamesOfLang(lang) ==
  CASE lang = "node" -> {<<"mid">>, <<"left">>, <<"deep">>, <<"ghost">>}
    [] lang = "python" -> {<<"flask">>, <<"jinja">>, <<"data">>, <<"ghost">>}
    [] lang = "java" -> {Log, <<"ghost">>}
    [] OTHER -> {}
Concluded == phase \in {"done", "skipped"}
CodeIn(files) == {f \in files : IsCode(scan.lang, f)}

\* No code that a program of the image can load is declared out of its path: a
\* package, or the part of it the advisory names, that gets not_in_path has
\* none of its files among those (evaluate and the closure it goes by).
UnreachedIsUnloadable ==
  Concluded =>
    LET loaded == scan.loaded
        has == scan.image.has
    IN  \A name \in NamesOfLang(scan.lang) : \A adv \in Advisories(name) :
          LET v == Evaluate(name, adv)
          IN  /\ v.why = "unreached" => CodeIn(has[name]) \cap loaded = {}
              /\ v.why = "hint unreached" => MeantBy(scan, name, adv.hints) \cap loaded = {}

\* What is declared absent is absent: no file of the package, no code of it, or
\* none of the part the advisory names, is anywhere in the image (evaluate, and
\* what the readers of the inventory could not read or name).
AbsenceIsComplete ==
  Concluded =>
    LET has == scan.image.has
    IN  \A name \in NamesOfLang(scan.lang) : \A adv \in Advisories(name) :
          LET v == Evaluate(name, adv)
          IN  /\ v.why = "component" => has[name] = {}
              /\ v.why = "no code" => CodeIn(has[name]) = {}
              /\ v.why = "hint absent" => MeantBy(scan, name, adv.hints) = {}

\* The exposure of a binary is never lost to a version that was read too high:
\* what it links below the fix, of the modules that were asked for, has a finding
\* that does not clear it (mainModuleVersion, depVersion, AnalyzeImage).
GoExposureIsSaid == Concluded /\ scan.lang = "go" => ExposureSaid(scan)

\* A dependency that is said to be linked really is, below the fix: one whose
\* version nobody knows is undetermined (uncomparableVersion).
LinkedIsBelowFix == Concluded /\ scan.lang = "go" => LinkedTruly(scan)

\* A version that the build info of a binary does not state is marked as recovered
\* in its findings, whatever other binary links it (grouper.markInferred).
RecoveryIsMarked == Concluded /\ scan.lang = "go" => RecoveryMarked(scan)

\* Asking for a module and asking for all find the same of it (group, groupAll).
TargetedAgrees == Concluded /\ scan.lang = "go" => AgreesWithAll(scan)

\* Source mode clears nothing it did not look at and nothing that is called, and
\* says what is (findingsForModule, sourceFinding).
SourceIsTruthful == Concluded /\ scan.lang = "gosource" => SourceTruthful(scan)

\* All that is concluded of Go binaries and of source, from several binaries,
\* the image's name and tags, and the statements of a scanner: no exposure is
\* lost, none is invented, and what was recovered or asked for changes neither.
GoTruthful ==
  GoExposureIsSaid /\ LinkedIsBelowFix /\ RecoveryIsMarked /\ TargetedAgrees /\ SourceIsTruthful
=============================================================================
