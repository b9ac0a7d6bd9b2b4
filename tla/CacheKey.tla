------------------------------- MODULE CacheKey -------------------------------
(***************************************************************************)
(* CacheKey::build (src/src/key.rs) and the classification of statements   *)
(* (src/src/sql.rs).                                                       *)
(*                                                                         *)
(* Text and bytes are sequences of naturals.  A fixed-width number (a      *)
(* length or a generation as 8 little-endian bytes) is one symbol.  BLAKE3 *)
(* is taken to have no collisions: a digest is the stream it hashes.  What *)
(* the parser finds in a statement is external, see Sql.                   *)
(***************************************************************************)
EXTENDS Naturals, Sequences

CONSTANTS NoTenant  \* CacheKeyInput::tenant is None

Text == Seq(Nat)
Dash == <<45>>      \* "-"

ASSUME CacheKeyAssumption == NoTenant \notin Text

\* A statement as sqlparser renders and classifies it: the canonical text, the
\* kinds of its statements, and whether that text holds FOR UPDATE or FOR SHARE.
Sql == [canonical : Text, kinds : Seq({"query", "other"}), locking : BOOLEAN]

\* CacheKeyInput, with the generation.
Input == [version : Text, data_source : Text, driver : Text, tenant : Text \cup {NoTenant},
          namespace : Text, statement_id : Text, sql : Sql, generation : Nat,
          parameters : Text]

\* SqlMetadata::is_cacheable: one SELECT that takes no lock.
Cacheable(sql) == sql.kinds = <<"query">> /\ ~sql.locking

Tenant(input) == IF input.tenant = NoTenant THEN Dash ELSE input.tenant

\* Mutant of Frame: components are concatenated without their length.
Unframed(bytes) == bytes

\* update_component: the length, then the bytes.
Frame(bytes) == <<Len(bytes)>> \o bytes

\* What build hashes, in the order of the code.
Digest(input) ==
  Frame(input.version) \o
  (Frame(input.data_source) \o
  (Frame(input.driver) \o
  (Frame(Tenant(input)) \o
  (Frame(input.namespace) \o
  (Frame(input.statement_id) \o
  (Frame(input.sql.canonical) \o
  (Frame(<<input.generation>>) \o
   Frame(input.parameters))))))))

\* The isolation boundaries of an input.  A missing tenant counts as the tenant
\* "-", and of a statement only its canonical text.
Boundaries(input) ==
  <<input.version, input.data_source, input.driver, Tenant(input), input.namespace,
    input.statement_id, input.sql.canonical, input.generation, input.parameters>>
=============================================================================
