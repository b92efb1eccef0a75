--------------------------- MODULE FilterExports ---------------------------
(***************************************************************************)
(* filter-exports: drops lines of a list of exports, by include and        *)
(* exclude patterns.  doublestar.Match is external: Matches[p] is the set  *)
(* of exports that pattern p matches, both with a trailing slash.          *)
(***************************************************************************)
EXTENDS Lines

CONSTANTS
  Matches,     \* from patterns to sets of exports
  BadPatterns  \* patterns that check refuses: no leading slash, or malformed

\* loadPatterns: the error of a pattern that check refuses.
loadPatternsFails(patterns) == patterns \cap BadPatterns # {}

match(export, patterns, empty) ==
  IF patterns = {} THEN empty ELSE \E p \in patterns : export \in Matches[p]

\* filter.run on a list of exports.
runFilter(lines, includes, excludes) ==
  IF includes = {} /\ excludes = {} THEN lines
  ELSE LET keep(e) == match(e, includes, TRUE) /\ ~match(e, excludes, FALSE)
       IN Selected(lines, {e \in {lines[i] : i \in DOMAIN lines} : keep(e)})
=============================================================================
