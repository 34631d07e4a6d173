------------------------------- MODULE Skills -------------------------------
(***************************************************************************)
(* Skills: folders of instructions, references, assets and scripts, loaded *)
(* from a directory, a zip file or a registry, and the tools with which a  *)
(* model finds them, activates them, reads their files and runs their      *)
(* scripts.                                                                *)
(*                                                                         *)
(* A path is a sequence of names.  A tree is a sequence of files in the    *)
(* order a scan meets them, [path, content]; a content is [text, binary,   *)
(* raw, body], `raw' the front matter of a SKILL.md, Nothing without one;  *)
(* its `additional' tools are Nothing without any, Throws if malformed.    *)
(***************************************************************************)
EXTENDS Naturals, FiniteSets, SequencesExt, TLC

CONSTANTS LowerName(_),     \* toLowerCase
          Extension(_),     \* path.extname
          SkillNames,       \* the names SNAKE_OR_KEBAB_NAME_PATTERN admits
          Throws, Nothing

---------------------------------------------------------------------------
(* Loading.                                                                *)

IgnoredDirectories == {"__pycache__", "node_modules", ".git"}
IgnoredExtensions == {".pyc", ".tsbuildinfo", ".DS_Store"}
AllowedKeys == {"name", "description", "license", "allowed-tools", "allowedTools", "metadata", "compatibility"}

Below(tree, dir) == SelectSeq(tree, LAMBDA f : IsPrefix(dir, f.path) /\ f.path # dir)
Relative(dir, path) == SubSeq(path, Len(dir) + 1, Len(path))
Ignored(path) == \E i \in 1 .. (Len(path) - 1) : path[i] \in IgnoredDirectories

FilesOf(files) == [p \in {f.path : f \in files} |-> (CHOOSE f \in files : f.path = p).content]

LoadDir(tree, dir) ==
  FilesOf({[f EXCEPT !.path = Relative(dir, @)] :
           f \in {g \in Range(Below(tree, dir)) :
                    /\ ~Ignored(Relative(dir, g.path))
                    /\ Extension(Last(g.path)) \notin IgnoredExtensions}})

TextOnly(files) == [p \in {r \in DOMAIN files : ~files[r].binary} |-> files[p]]

\* A list of additional tools must be one; the keys of raw are not checked here.
ValidateFrontmatter(raw) ==
  raw.name \in SkillNames /\ raw.description # "" /\ raw.additional # Throws

Frontmatter(raw) ==
  [raw EXCEPT !.keys = IF "allowed-tools" \in @ THEN @ \cup {"allowedTools"} ELSE @]

ParseSkillMd(content) ==
  IF content.raw = Nothing \/ ~ValidateFrontmatter(content.raw) THEN Throws
  ELSE [frontmatter |-> Frontmatter(content.raw), instructions |-> content.body]

SkillMds(tree, dir) ==
  SelectSeq(Below(tree, dir), LAMBDA f : Len(f.path) = Len(dir) + 1 /\ LowerName(Last(f.path)) = "skill.md")

\* A skill is called what its directory is called.
LoadSkillFile(tree, dir) ==
  LET mds == SkillMds(tree, dir)
  IN  IF mds = << >> THEN Throws
      ELSE LET skill == ParseSkillMd(mds[1].content)
           IN  IF skill = Throws \/ dir = << >> THEN Throws
               ELSE IF skill.frontmatter.name # Last(dir) THEN Throws
               ELSE skill

WithResources(skill, references, assets, scripts) ==
  [frontmatter |-> skill.frontmatter, instructions |-> skill.instructions,
   references |-> references, assets |-> assets, scripts |-> TextOnly(scripts)]

LoadSkillFromDir(tree, dir) ==
  LET skill == LoadSkillFile(tree, dir)
  IN  IF skill = Throws THEN Throws
      ELSE WithResources(skill, LoadDir(tree, Append(dir, "references")),
                         LoadDir(tree, Append(dir, "assets")), LoadDir(tree, Append(dir, "scripts")))

ValidateSkillDir(tree, dir) ==
  LET skill == LoadSkillFile(tree, dir)
  IN  IF skill = Throws THEN {"not a skill"}
      ELSE {k \in skill.frontmatter.keys : k \notin AllowedKeys}

\* A directory with a SKILL.md is a skill, and what is below it is part of it.
SkillDirs(tree, base) ==
  LET holders == SelectSeq(Below(tree, base),
                   LAMBDA f : /\ LowerName(Last(f.path)) = "skill.md"
                              /\ Front(f.path) # base
                              /\ ~Ignored(Relative(base, f.path)))
      dirs == [i \in DOMAIN holders |-> Front(holders[i].path)]
  IN  SelectSeq(dirs, LAMBDA d : \A e \in Range(dirs) : IsPrefix(e, d) => e = d)

\* One that cannot be loaded is passed over; of two of a name the last stays.
LoadAllSkillsInDir(tree, base) ==
  FoldLeft(LAMBDA found, dir :
             LET skill == LoadSkillFromDir(tree, dir)
             IN  IF skill = Throws THEN found ELSE (skill.frontmatter.name :> skill) @@ found,
           [n \in {} |-> Nothing], SkillDirs(tree, base))

ZipDir(tree, dir) ==
  FilesOf({[f EXCEPT !.path = Relative(dir, @)] :
           f \in {g \in Range(Below(tree, dir)) : "__pycache__" \notin Range(g.path)}})

LoadSkillFromZip(tree) ==
  LET mds == SkillMds(tree, << >>)
      skill == IF mds = << >> THEN Throws ELSE ParseSkillMd(mds[1].content)
  IN  IF skill = Throws THEN Throws
      ELSE WithResources(skill, ZipDir(tree, <<"references">>), ZipDir(tree, <<"assets">>),
                         ZipDir(tree, <<"scripts">>))

---------------------------------------------------------------------------
(* The toolset: t = [fetched, cache, activated, asked].                    *)
(*   fetched    per invocation, the skills its registry gave               *)
(*   cache      the additional tools of each list of activated skills      *)
(*   activated  the skills each agent's state lists                        *)
(*   asked      how often the registry gave each skill, per invocation     *)
(* set = [local, registry, own, additional]: its skills, those of the      *)
(* registry (Nothing without one), its own tools, and the candidates, one  *)
(* sequence of names per tool or toolset.                                  *)

NewToolset == [fetched |-> << >>, cache |-> << >>, activated |-> << >>, asked |-> << >>]
At(f, x, none) == IF x \in DOMAIN f THEN f[x] ELSE none

\* An operation is [t, result]; `up' tells whether the registry answers.
GetOrFetchSkill(t, set, name, inv, up) ==
  LET met == At(t.fetched, inv, << >>)
  IN  CASE name \in DOMAIN set.local -> [t |-> t, result |-> set.local[name]]
        [] name \notin DOMAIN set.local /\ set.registry = Nothing -> [t |-> t, result |-> Nothing]
        [] name \notin DOMAIN set.local /\ set.registry # Nothing ->
             IF name \in DOMAIN met THEN [t |-> t, result |-> met[name]]
             ELSE IF ~up \/ name \notin DOMAIN set.registry THEN [t |-> t, result |-> Throws]
             ELSE LET skill == set.registry[name]
                  IN  [t |-> [t EXCEPT !.fetched = (inv :> ((name :> skill) @@ met)) @@ @,
                                       !.asked = (<<inv, name>> :> (At(@, <<inv, name>>, 0) + 1)) @@ @],
                       result |-> skill]

LoadSkill(t, set, agent, inv, name, up) ==
  IF name = "" THEN [t |-> t, result |-> "MISSING_SKILL_NAME"]
  ELSE LET r == GetOrFetchSkill(t, set, name, inv, up)
           listed == At(t.activated, agent, << >>)
       IN  CASE r.result = Throws -> [t |-> r.t, result |-> "REGISTRY_ERROR"]
             [] r.result = Nothing -> [t |-> r.t, result |-> "SKILL_NOT_FOUND"]
             [] r.result \notin {Throws, Nothing} ->
                  [t |-> IF Contains(listed, name) THEN r.t
                         ELSE [r.t EXCEPT !.activated = (agent :> Append(listed, name)) @@ @],
                   result |-> r.result]

AdditionalOf(skill) == IF skill.frontmatter.additional = Nothing THEN << >> ELSE skill.frontmatter.additional

\* The names wanted by the skills, in order; a fetch that fails fails them all.
Wanted(t, set, inv, names, up) ==
  FoldLeft(LAMBDA acc, name :
             IF acc.result = Throws THEN acc
             ELSE LET r == GetOrFetchSkill(acc.t, set, name, inv, up)
                  IN  [t |-> r.t, result |-> CASE r.result = Throws -> Throws
                                               [] r.result = Nothing -> acc.result
                                               [] OTHER -> acc.result \o AdditionalOf(r.result)],
           [t |-> t, result |-> << >>], names)

FirstOfEach(s) == SelectSeq([i \in DOMAIN s |-> <<i, s[i]>>],
                            LAMBDA e : \A k \in 1 .. (e[1] - 1) : s[k] # e[2])

ResolveAdditionalTools(t, set, agent, inv, up) ==
  LET listed == At(t.activated, agent, << >>)
      key == <<agent, listed>>
      wanted == Wanted(t, set, inv, listed, up)
      candidates == FlattenSeq(set.additional)
      Kept(s) == LET f == FirstOfEach(s) IN [i \in DOMAIN f |-> f[i][2]]
      tools == SelectSeq(Kept(wanted.result), LAMBDA n : Contains(candidates, n) /\ ~Contains(set.own, n))
      Remember(v, s) == [t |-> [v EXCEPT !.cache = (key :> s) @@ @], result |-> s]
  IN  IF listed = << >> THEN [t |-> t, result |-> << >>]
      ELSE IF key \in DOMAIN t.cache THEN [t |-> t, result |-> t.cache[key]]
      ELSE IF wanted.result = Throws THEN wanted
      ELSE IF wanted.result = << >> THEN Remember(wanted.t, << >>)
      ELSE IF ~IsInjective(candidates) THEN [t |-> wanted.t, result |-> Throws]
      ELSE Remember(wanted.t, tools)

GetTools(t, set, agent, inv, up) ==
  LET r == ResolveAdditionalTools(t, set, agent, inv, up)
  IN  IF r.result = Throws THEN r ELSE [r EXCEPT !.result = set.own \o @]

OwnTools(inline, searches) ==
  <<"list_skills", "load_skill", "load_skill_resource", "run_skill_script">>
    \o (IF inline THEN <<"run_skill_inline_script">> ELSE << >>)
    \o (IF searches THEN <<"search_skills">> ELSE << >>)

CloseToolset(t) == [t EXCEPT !.fetched = << >>]

\* A skill of the registry the toolset has itself is not found.
SearchSkills(set, hits, query, up) ==
  CASE query = "" -> "INVALID_ARGUMENTS"
    [] query # "" /\ ~up -> "REGISTRY_ERROR"
    [] OTHER -> SelectSeq(hits, LAMBDA n : n \notin DOMAIN set.local)

\* The last part of what a registry calls a skill, under the first key it uses.
RegistryName(s) ==
  LET set == SelectSeq(<<s.skillName, s.skill_name, s.name>>, LAMBDA n : n # << >>)
  IN  IF set = << >> THEN "" ELSE Last(set[1])

---------------------------------------------------------------------------
(* The files of a skill.                                                   *)

\* path.posix.normalize
NormalizePath(path) ==
  FoldLeft(LAMBDA acc, seg :
             IF seg = "." THEN acc
             ELSE IF seg = ".." /\ acc # << >> /\ Last(acc) # ".." THEN Front(acc)
             ELSE Append(acc, seg), << >>, path)

Folders == {"references", "assets", "scripts"}
FolderOf(skill, folder) ==
  CASE folder = "references" -> skill.references
    [] folder = "assets" -> skill.assets
    [] folder = "scripts" -> skill.scripts

\* A binary file is only announced; the next request brings it.
LoadSkillResource(skill, given) ==
  LET path == NormalizePath(given)
  IN  IF Len(path) < 2 \/ path[1] \notin Folders THEN "INVALID_RESOURCE_PATH"
      ELSE IF Tail(path) \notin DOMAIN FolderOf(skill, path[1]) THEN "RESOURCE_NOT_FOUND"
      ELSE LET content == FolderOf(skill, path[1])[Tail(path)]
           IN  [path |-> path, content |-> IF content.binary THEN Nothing ELSE content.text]

\* What a request whose last content has these answers is given besides.
InjectResources(skill, answers) ==
  LET found == SelectSeq(answers, LAMBDA a :
                 /\ a.content = Nothing /\ a.path[1] \in {"references", "assets"}
                 /\ Tail(a.path) \in DOMAIN FolderOf(skill, a.path[1])
                 /\ FolderOf(skill, a.path[1])[Tail(a.path)].binary)
  IN  [i \in DOMAIN found |-> [path |-> found[i].path,
                               data |-> FolderOf(skill, found[i].path[1])[Tail(found[i].path)].text]]

GetSkillResourceFiles(skill) ==
  UNION {{<<folder>> \o p : p \in DOMAIN FolderOf(skill, folder)} : folder \in Folders}

Wrapped == {".js", ".ts", ".py", ".sh", ".ps1", ".bat"}

\* A path is looked for below scripts/, with its own scripts/ or without; the
\* code that is run names it as it was given.
RunSkillScript(skill, path, executor) ==
  LET bare == IF path[1] = "scripts" /\ Len(path) > 1 THEN Tail(path) ELSE path
  IN  CASE bare \notin DOMAIN skill.scripts /\ path \notin DOMAIN skill.scripts -> "SCRIPT_NOT_FOUND"
        [] (bare \in DOMAIN skill.scripts \/ path \in DOMAIN skill.scripts) /\ ~executor -> "NO_CODE_EXECUTOR"
        [] OTHER -> IF Extension(Last(path)) \notin Wrapped THEN "EXECUTION_ERROR"
                    ELSE [runs |-> path, files |-> GetSkillResourceFiles(skill)]

\* confirmation is "none", "yes" or "no".
RunSkillInlineScript(script, language, executor, confirmation) ==
  LET Result(error, asks, runs) == [error |-> error, asks |-> asks, runs |-> runs]
  IN  IF script = "" THEN Result("MISSING_SCRIPT_CONTENT", << >>, << >>)
      ELSE IF language = "" THEN Result("MISSING_LANGUAGE", << >>, << >>)
      ELSE IF ~executor THEN Result("NO_CODE_EXECUTOR", << >>, << >>)
      ELSE CASE confirmation = "none" -> Result("", <<language, script>>, << >>)
             [] confirmation = "no" -> Result("CONFIRMATION_REJECTED", << >>, << >>)
             [] confirmation = "yes" -> Result("", << >>, <<language, script>>)
=============================================================================
