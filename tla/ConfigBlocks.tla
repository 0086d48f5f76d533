----------------------------- MODULE ConfigBlocks -----------------------------
(***************************************************************************)
(* utils/config_blocks.h: the keys of the [Database], [Log] and general     *)
(* blocks, and the SQLite file that is opened.  A value is a sequence of    *)
(* characters where that matters; keys are in lower case.                   *)
(***************************************************************************)
EXTENDS Naturals, Sequences, SequencesExt

CONSTANTS
  DefaultPath, OldDefaultPath,  \* of SQLite; OldDefaultPath is "" for none
  WordChars,                    \* letters, digits and _
  NumberOf                      \* the values that begin with a numeral, to its number

\* The spellings of a key.
KeyOf(key) ==
  CASE key \in {"path", "db_path"} -> "path"
    [] key \in {"user", "username"} -> "user"
    [] key \in {"pass", "password"} -> "pass"
    [] key \in {"database", "name", "dbname"} -> "name"
    [] OTHER -> key
DatabaseKeys == {"type", "prefix", "path", "host", "user", "pass", "name", "port"}

Defaults == [type |-> "sqlite", prefix |-> <<>>, path |-> DefaultPath, host |-> "localhost",
             user |-> "root", pass |-> "", name |-> "db", port |-> 3306]

LowerCase(type) == IF type = "MySQL" THEN "mysql" ELSE type
Atoi(value) == IF value \in DOMAIN NumberOf THEN NumberOf[value] ELSE 0
IsMySQL(db) == db.type = "mysql"

\* The block after a key, the same for a key that it does not own.
ApplyDatabaseKey(db, key, value) ==
  CASE KeyOf(key) \notin DatabaseKeys -> db
    [] key = "type" -> [db EXCEPT !.type = LowerCase(value)]
    [] key = "prefix" -> [db EXCEPT !.prefix = SelectSeq(value, LAMBDA c : c \in WordChars)]
    [] key = "port" -> [db EXCEPT !.port = Atoi(value)]
    [] OTHER -> [db EXCEPT ![KeyOf(key)] = value]

Load(lines) == FoldLeft(LAMBDA db, line : ApplyDatabaseKey(db, line[1], line[2]), Defaults, lines)

\* The SQLite file that ToConnectParams names, `files` being there.
PathToOpen(db, files) ==
  IF IsMySQL(db) \/ OldDefaultPath = "" \/ db.path /= DefaultPath THEN db.path
  ELSE IF db.path \notin files /\ OldDefaultPath \in files THEN OldDefaultPath ELSE db.path

\* "0" turns a switch off, anything else on.
IsOn(value) == value /= "0"
LogDefaults == [toFile |-> TRUE, retentionDays |-> 30]
ApplyLogKey(log, key, value) ==
  CASE key = "logtofile" -> [log EXCEPT !.toFile = IsOn(value)]
    [] key = "logretentiondays" -> [log EXCEPT !.retentionDays = Atoi(value)]
    [] OTHER -> log

-----------------------------------------------------------------------------
\* The last line of each key counts, in whatever spelling, and nothing else of
\* the order; the prefix, which goes into table names, is only letters, digits
\* and underscores (config_blocks.h:134); and a file that was opened is opened
\* again at the next start, old path or new, unless the admin names another
\* (config_blocks.h:101).
SettingsAreKept(lines, files) ==
  LET db == Load(lines)
      LastOf(key) == SelectLastInSeq(lines, LAMBDA line : KeyOf(line[1]) = key)
      opened == PathToOpen(db, files)
      Given(key) == lines[LastOf(key)][2]
  IN /\ \A key \in DatabaseKeys \ {"type", "prefix"} :
          db[key] = IF LastOf(key) = 0 THEN Defaults[key]
                    ELSE IF key = "port" THEN Atoi(Given(key)) ELSE Given(key)
     /\ ToSet(db.prefix) \subseteq WordChars
     /\ IsMySQL(db) <=> (LastOf("type") /= 0 /\ Given("type") \in {"mysql", "MySQL"})
     /\ ~IsMySQL(db) =>
          /\ PathToOpen(db, files \cup {opened}) = opened
          /\ opened \in {db.path, OldDefaultPath}
          /\ opened /= db.path => db.path = DefaultPath /\ opened \in files
=============================================================================
