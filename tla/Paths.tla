------------------------------- MODULE Paths -------------------------------
(***************************************************************************)
(* Paths as the scanners, the index and the detectors compare them: a      *)
(* sequence of names that starts with the letter of the volume, so         *)
(* <<"C", "a", "f">> is C:\a\f. Every comparison of the code folds         *)
(* separators and case first; a name here stands for all its spellings.    *)
(***************************************************************************)
EXTENDS Naturals, Sequences, SequencesExt

NoPath == <<>>

Folder(path) == Front(path)

Name(path) == Last(path)

IsVolume(path) == Len(path) = 1

(* those members of a sequence that are in a set                           *)
Only(s, S) ==
  LET chosen[n \in 0 .. Len(s)] ==
        IF n = 0 THEN <<>>
        ELSE IF s[n] \in S THEN Append(chosen[n - 1], s[n]) ELSE chosen[n - 1]
  IN chosen[Len(s)]

(* the path itself or anything below it                                    *)
Under(path, root) == IsPrefix(root, path)

Excluded(path, exclusions) == \E root \in exclusions : Under(path, root)

(* The first step below the volume with one of the names, whatever it is
   a folder or the file itself.                                            *)
Outermost(path, names) ==
  LET at == {k \in 2 .. Len(path) : path[k] \in names} IN
  IF at = {} THEN NoPath ELSE SubSeq(path, 1, Min(at))

(* what lies on the way from a folder down to a path, the path included    *)
Way(root, path) == {SubSeq(path, 1, k) : k \in Len(root) + 1 .. Len(path)}
=============================================================================
