------------------------------- MODULE Logger -------------------------------
(***************************************************************************)
(* The log on the serial port: src/libs/logger/src/logger.c, its clients   *)
(* in pmm.c and buddy.c that stream a document of their own, and the       *)
(* panics that log from wherever the kernel was.                           *)
(*                                                                         *)
(* The kernel writes one token at a time (serial_write_string), and an     *)
(* exception may come between any two.  A call of the logger changes       *)
(* nothing but the log, so it is the text it writes.  Both loggers of the  *)
(* kernel have the serial port as their only writer.                       *)
(***************************************************************************)
EXTENDS Integers, SequencesExt

CONSTANTS
  JEMS_MAX_LEVEL,          \* levels of the emitters of the logger ...
  CLIENT_MAX_LEVEL,        \* ... and of its clients
  Chunk,                   \* tokens in a piece of log_complex's data
  MapSizes,                \* entries in the memory maps that are logged
  BlockCounts,             \* free blocks of each order, in the states logged
  Complex,                 \* texts given to log_complex
  MaxCalls,                \* bound: calls before a panic
  MaxEntries, MaxPanics    \* bounds: calls with those of panics, and panics

INSTANCE Json WITH
  Strings <- {"level", "component", "message", "data", "field", "text", "INFO", "DEBUG", "FATAL"},
  Scalars <- {"1"}

(* jems_writer, both of the logger and of its clients.                     *)
INSTANCE Jems WITH Write <- Append

EndOfLine == "\n"

(* Enough levels for what is emitted: the logger's documents have one      *)
(* object in the document, its clients' have two and two arrays.           *)
ASSUME LoggerAssumption ==
  /\ JEMS_MAX_LEVEL \in Nat /\ JEMS_MAX_LEVEL >= 2
  /\ CLIENT_MAX_LEVEL \in Nat /\ CLIENT_MAX_LEVEL >= 5
  /\ Chunk \in Nat \ {0}
  /\ MapSizes \subseteq Nat /\ BlockCounts \subseteq Seq(Nat) /\ Complex \subseteq Seq(Tokens)
  /\ MaxCalls \in Nat /\ MaxEntries \in Nat /\ MaxPanics \in Nat

-----------------------------------------------------------------------------
(* The array of levels of an emitter is static: it holds what its earlier  *)
(* uses, or one that was interrupted, left there.                          *)
Used(max_level) == [i \in 0 .. (max_level - 1) |-> [item_count |-> 3, is_object |-> TRUE]]

Emitter(max_level) == jems_init(Used(max_level), max_level, <<>>)

(* What create_json_log and log_stream_start have in common.               *)
Header(level) ==
  LET object    == jems_object_open(Emitter(JEMS_MAX_LEVEL))
      levelled  == jems_key_string(object, "level", level)
      component == jems_key_string(levelled, "component", "text")
  IN  jems_key_string(component, "message", "text")

log_message(level) == jems_object_close(Header(level)).arg \o <<EndOfLine>>

log_stream_start(level) == jems_key_literal(Header(level), "data", <<>>).arg

(* The length is not used: data is written to its end.                     *)
log_stream_data(data, length) == data

log_stream_end_unterminated == jems_object_close(Emitter(JEMS_MAX_LEVEL)).arg    \* mutant
log_stream_end == jems_object_close(Emitter(JEMS_MAX_LEVEL)).arg \o <<EndOfLine>>

(* The pieces start at every Chunk-th token.                               *)
Pieces(data) ==
  FlattenSeq([k \in 1 .. ((Len(data) + Chunk - 1) \div Chunk) |->
    LET done == (k - 1) * Chunk
    IN  log_stream_data(SubSeq(data, done + 1, Len(data)), Chunk)])

log_complex(level, data) == log_stream_start(level) \o Pieces(data) \o log_stream_end

-----------------------------------------------------------------------------
(* The clients: an emitter whose writer is log_stream_data.                *)
Field(jems, i) == jems_key_scalar(jems, "field", "1")

Fields(jems, n) == FoldLeft(Field, jems, [i \in 1 .. n |-> i])

MapEntry(jems, i) == jems_object_close(Fields(jems_object_open(jems), 3))

MemoryMap(entry_count) ==
  LET totals  == Fields(jems_object_open(Emitter(CLIENT_MAX_LEVEL)), 4)
      entries == FoldLeft(MapEntry, jems_key_array_open(totals, "field"),
                          [i \in 1 .. entry_count |-> i])
  IN  jems_object_close(jems_array_close(entries)).arg

FreeBlock(jems, i) == jems_string(jems, "text")

OrderState(jems, count) ==
  LET opened == jems_key_array_open(Fields(jems_object_open(jems), 4), "field")
      blocks == FoldLeft(FreeBlock, opened, [i \in 1 .. count |-> i])
  IN  jems_object_close(jems_array_close(blocks))

BuddyState(counts) ==
  LET totals == Fields(jems_object_open(Emitter(CLIENT_MAX_LEVEL)), 2)
      orders == FoldLeft(OrderState, jems_key_array_open(totals, "field"), counts)
  IN  jems_object_close(jems_array_close(orders)).arg

Streamed(document) == log_stream_start("DEBUG") \o document \o log_stream_end

(* All that the kernel logs: log_memory_map_debug, the stream of           *)
(* buddy_allocator_debug_state, messages, and log_complex.                 *)
Texts ==
  {log_message("INFO")}
  \cup {Streamed(MemoryMap(n)) : n \in MapSizes}
  \cup {Streamed(BuddyState(counts)) : counts \in BlockCounts}
  \cup {log_complex("INFO", data) : data \in Complex}

PanicText == log_message("FATAL")

-----------------------------------------------------------------------------
VARIABLES
  log,       \* the lines on the serial port; the last one is not ended yet
  pending,   \* what the running call has still to write
  mode,      \* "kernel", "panic", "halted"
  called,    \* history: the texts of all calls so far
  panics,    \* history: the number of exceptions
  struck     \* history: lines that were not empty when an exception came

loggerVars == <<log, pending, mode, called, panics, struck>>

line == Last(log)

Init ==
  /\ log = <<<<>>>> /\ pending = <<>> /\ mode = "kernel"
  /\ called = <<>> /\ panics = 0 /\ struck = {}

Call(text) ==
  /\ mode = "kernel" /\ pending = <<>> /\ Len(called) < MaxCalls
  /\ pending' = text
  /\ called' = Append(called, text)
  /\ UNCHANGED <<log, mode, panics, struck>>

WriteToken ==
  /\ mode # "halted" /\ pending # <<>>
  /\ log' = IF Head(pending) = EndOfLine THEN Append(log, <<>>)
            ELSE Append(Front(log), Append(line, Head(pending)))
  /\ pending' = Tail(pending)
  /\ UNCHANGED <<mode, called, panics, struck>>

(* An exception, of the kernel or of a panic; the panic logs before it     *)
(* does anything else.                                                     *)
kernel_panic_quiet ==    \* mutant: it logs nothing
  /\ mode # "halted" /\ panics < MaxPanics /\ Len(called) < MaxEntries
  /\ mode' = "panic" /\ pending' = <<>>
  /\ called' = called /\ panics' = panics + 1 /\ UNCHANGED <<log, struck>>
kernel_panic ==
  /\ mode # "halted" /\ panics < MaxPanics /\ Len(called) < MaxEntries
  /\ mode' = "panic" /\ pending' = PanicText
  /\ called' = Append(called, PanicText)
  /\ panics' = panics + 1
  /\ struck' = IF line = <<>> THEN struck ELSE struck \cup {Len(log)}
  /\ UNCHANGED log

(* After the screen was written (see Terminal).                            *)
hcf ==
  /\ mode = "panic" /\ pending = <<>>
  /\ mode' = "halted"
  /\ UNCHANGED <<log, pending, called, panics, struck>>

LoggerNext ==
  \/ \E text \in Texts : Call(text)
  \/ WriteToken \/ kernel_panic \/ hcf

LoggerSpec == Init /\ [][LoggerNext]_loggerVars

-----------------------------------------------------------------------------
Ended == 1 .. (Len(log) - 1)

(* Each line of the log is one JSON text, whatever is streamed into it,    *)
(* except for lines in the middle of which an exception came.              *)
LinesReadable == \A i \in Ended \ struck : IsJson(log[i])

(* A machine that halted in a panic has said so: the last thing in the log *)
(* is the whole entry of a panic, and its line is ended.                   *)
PanicLogged ==
  mode = "halted" =>
    line = <<>> /\ Len(log) > 1 /\ IsSuffix(Front(PanicText), log[Len(log) - 1])

(* log_complex puts the data it is given into one entry ("Stream the       *)
(* json_data in chunks", logger.c:171).                                    *)
ComplexStreamed ==
  \A i \in Ended \ struck :
    \E text \in {log_message("INFO"), PanicText}
                \cup {Streamed(MemoryMap(n)) : n \in MapSizes}
                \cup {Streamed(BuddyState(counts)) : counts \in BlockCounts}
                \cup {log_stream_start("INFO") \o data \o log_stream_end : data \in Complex} :
      log[i] = Front(text)
=============================================================================
