----------------------------- MODULE PathMatching -----------------------------
(***************************************************************************)
(* Which files an application or a pattern of .lemuria.yaml is about       *)
(* (internal/vcs/helpers.go, the end of internal/commands/executor.go).    *)
(*                                                                         *)
(* A path is the sequence of its segments, without "." and empty ones; a   *)
(* segment of a pattern is a name, "*" or "**", so that wildcards stand    *)
(* for whole segments.  A source of an application has a path, in the      *)
(* pull request's repository (here) or another one, a name by which others *)
(* refer to it, and the Helm value files it uses.                          *)
(*                                                                         *)
(* AnySegment and InsidePath are faulty variants of the definition after   *)
(* them.                                                                   *)
(***************************************************************************)
EXTENDS Naturals, Sequences, FiniteSets, SequencesExt

\* path.Clean of a path with ".." in it: each takes back the name before it, if any.
Cleaned(done, s) ==
    IF s = ".." /\ done # <<>> /\ Last(done) # ".." THEN Front(done) ELSE Append(done, s)
Clean(p) ==
    LET done[i \in 0..Len(p)] == IF i = 0 THEN <<>> ELSE Cleaned(done[i - 1], p[i])
    IN done[Len(p)]

\* pathContains: the file is below the directory.
PathContains(dir, file) == Len(dir) < Len(file) /\ IsPrefix(dir, file)

\* resolveValueFilePath: from the root of the repository or from the source's path.
InsidePath(dir, v) == dir \o v.path
ResolveValueFile(dir, v) == IF v.kind = "absolute" THEN Clean(v.path) ELSE Clean(dir \o v.path)

\* resolveRefValueFile: the path is one in the source that has the name.
ResolveRef(sources, v, file) ==
    \E s \in sources : s.ref = v.ref /\ s.here /\ Clean(v.path) = Clean(file)

\* fileMatchesAppSources.  Of an application with one source only its path counts.
FileMatchesAppSources(app, file) ==
    IF ~app.multi THEN \E s \in app.sources : s.path # <<>> /\ PathContains(s.path, file)
    ELSE \E s \in app.sources :
            \/ s.here /\ s.path # <<>> /\ PathContains(s.path, file)
            \/ \E v \in s.values :
                  IF v.kind = "ref" THEN ResolveRef(app.sources, v, file)
                  ELSE s.here /\ ResolveValueFile(s.path, v) = file

\* appReferencesRepo.
ReferencesRepo(app) == \E s \in app.sources : s.here

-----------------------------------------------------------------------------

\* filepath.Match: as many segments, each the same or one that a wildcard stands for.
Glob(pattern, path) ==
    /\ Len(pattern) = Len(path)
    /\ \A i \in DOMAIN path : pattern[i] \in {path[i], "*", "**"}

DoubleStars(pattern) == {i \in DOMAIN pattern : pattern[i] = "**"}
Tails(path) == {SubSeq(path, i, Len(path)) : i \in DOMAIN path}

\* MatchesPath.  What stands before the only "**" is compared as it is.
AnySegment(pattern, path) ==
    IF Cardinality(DoubleStars(pattern)) # 1 THEN Glob(pattern, path)
    ELSE LET i == CHOOSE j \in DoubleStars(pattern) : TRUE
             suffix == SubSeq(pattern, i + 1, Len(pattern))
         IN /\ PathContains(SubSeq(pattern, 1, i - 1), path)
            /\ suffix = <<>> \/ \E j \in i..Len(path) : Glob(suffix, <<path[j]>>)
MatchesPath(pattern, path) ==
    IF Cardinality(DoubleStars(pattern)) # 1 THEN Glob(pattern, path)
    ELSE LET i == CHOOSE j \in DoubleStars(pattern) : TRUE
             suffix == SubSeq(pattern, i + 1, Len(pattern))
         IN /\ PathContains(SubSeq(pattern, 1, i - 1), path)
            /\ \/ suffix = <<>>
               \/ \E t \in Tails(SubSeq(path, i, Len(path))) : Glob(suffix, t)
               \/ Glob(suffix, <<Last(path)>>)

\* FilterFilesByPatterns finds something.
SomeFileMatches(files, patterns) == \E f \in files, p \in patterns : MatchesPath(p, f)

\* GetAllFilePaths: of a renamed file also the former name.
AllFilePaths(changes) ==
    UNION {{c.file} \union (IF c.renamedFrom = <<>> THEN {} ELSE {c.renamedFrom}) : c \in changes}

-----------------------------------------------------------------------------
(* What they are meant to say. *)

\* A "**" stands for any number of segments, at the end for at least one.
DoubleStar(pattern, path) ==
    \E i \in DoubleStars(pattern) :
       LET after == Len(pattern) - i
           from == Len(path) - after
       IN /\ i - 1 <= from /\ i - 1 < Len(path)
          /\ Glob(SubSeq(pattern, 1, i - 1), SubSeq(path, 1, i - 1))
          /\ Glob(SubSeq(pattern, i + 1, Len(pattern)), SubSeq(path, from + 1, Len(path)))

\* Where a path leads from the root of the repository: ".." leads up, at the root outside.
Outside == <<"..">>
Entered(at, s) == CASE at = Outside \/ (at = <<>> /\ s = "..") -> Outside
                    [] at # Outside /\ at # <<>> /\ s = ".." -> Front(at)
                    [] OTHER -> Append(at, s)
Follow(p) ==
    LET at[i \in 0..Len(p)] == IF i = 0 THEN <<>> ELSE Entered(at[i - 1], p[i])
    IN at[Len(p)]

\* Argo CD reads the file when it renders the application.
Reads(app, file) ==
    \E s \in app.sources :
       \/ s.here /\ s.path # <<>> /\ PathContains(s.path, file)
       \/ \E v \in s.values :
             CASE v.kind = "ref" -> \E t \in app.sources : t.here /\ t.ref = v.ref
                                                          /\ Follow(v.path) = file
               [] v.kind = "absolute" -> s.here /\ Follow(v.path) = file
               [] OTHER -> s.here /\ Follow(s.path \o v.path) = file

==============================================================================
