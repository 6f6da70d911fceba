------------------------------- MODULE LogBuf -------------------------------
(***************************************************************************)
(* printk.c: the ring of records of unequal length, and its readers, each  *)
(* with a sequence number and an index that nobody moves when the record   *)
(* there is overrun.  One action is one critical section of logbuf_lock,   *)
(* between which a reader copies to user space.  The console is Console's. *)
(***************************************************************************)
EXTENDS Integers

CONSTANTS TextLens,     \* lengths of text; a header has length 1
          EarlyLen,     \* __LOG_BUF_LEN
          NewLen,       \* new_log_buf_len
          MaxRecords    \* bound: records stored

Header == 1
Longest == CHOOSE n \in TextLens : \A m \in TextLens : m <= n

(* The ring has room for two of the longest records, each with an empty    *)
(* header: LOG_LINE_MAX is below 1 KiB and the least ring has 4 KiB.       *)
ASSUME LogBufAssumption == /\ TextLens \subseteq Nat \ {0} /\ TextLens # {}
                           /\ EarlyLen \in Nat /\ NewLen \in Nat /\ EarlyLen <= NewLen
                           /\ \A n \in TextLens : 2 * (n + 2 * Header) <= EarlyLen
                           /\ MaxRecords \in Nat

VARIABLES log_buf,      \* what is at each index
          log_buf_len,
          first, next,  \* log_first_seq and log_first_idx, log_next_seq and log_next_idx
          syslog, syslog_partial,
          clear,
          reader        \* a dump of the log, a kmsg_dumper or an open /dev/kmsg
lbvars == <<log_buf, log_buf_len, first, next, syslog, syslog_partial, clear, reader>>

Zero == [len |-> 0, seq |-> MaxRecords]       \* the end of buffer marker
Bytes == [len |-> NewLen, seq |-> MaxRecords] \* text, or memory nobody has written
Start == [seq |-> 0, idx |-> 0]
NoReader == [kind |-> "none", at |-> Start, last |-> 0, clears |-> FALSE]

Positions == [seq : 0 .. MaxRecords, idx : 0 .. NewLen - 1]
LogBufTypeOK ==
    /\ log_buf \in [0 .. NewLen - 1 -> [len : 0 .. NewLen, seq : 0 .. MaxRecords]]
    /\ log_buf_len \in {EarlyLen, NewLen}
    /\ first \in Positions /\ next \in Positions /\ syslog \in Positions /\ clear \in Positions
    /\ syslog_partial \in 0 .. Longest
    /\ reader \in [kind : {"none", "all", "kmsg", "dump"}, at : Positions,
                   last : 0 .. MaxRecords, clears : BOOLEAN]

LogBufInit == /\ log_buf = [i \in 0 .. NewLen - 1 |-> IF i < EarlyLen THEN Zero ELSE Bytes]
              /\ log_buf_len = EarlyLen
              /\ first = Start /\ next = Start /\ syslog = Start /\ clear = Start
              /\ syslog_partial = 0
              /\ reader = NoReader

----------------------------------------------------------------------------
log_from_idx(idx) == IF log_buf[idx].len = 0 THEN log_buf[0] ELSE log_buf[idx]
log_next(idx) == IF log_buf[idx].len = 0 THEN log_buf[0].len ELSE idx + log_buf[idx].len

Advance(c) == [seq |-> c.seq + 1, idx |-> log_next(c.idx)]

(* c and the positions of the records that follow it, by sequence number.  *)
From(c) == LET at[s \in c.seq .. next.seq] == IF s = c.seq THEN c ELSE Advance(at[s - 1])
           IN  at

(* The room in one piece when the oldest record is at f.                   *)
Room(f) == IF next.idx > f.idx
           THEN IF log_buf_len - next.idx > f.idx THEN log_buf_len - next.idx ELSE f.idx
           ELSE f.idx - next.idx

(* Without the room for the header that marks the end of the buffer.       *)
FitsExactly(f, size) == Room(f) >= size
HasRoom(f, size) == Room(f) > size + Header

(* log_store drops old records until the new one and an empty header fit,  *)
(* and starts again at 0 where they do not fit before the end.             *)
log_store(size) ==
    LET olds == From(first)
        kept == {s \in first.seq .. next.seq : s = next.seq \/ HasRoom(olds[s], size)}
        wrap == next.idx + size + Header >= log_buf_len
        at == IF wrap THEN 0 ELSE next.idx
    IN  /\ next.seq < MaxRecords
        /\ first' = olds[CHOOSE s \in kept : \A o \in kept : s <= o]
        /\ log_buf' = [i \in DOMAIN log_buf |->
                          IF i = at THEN [len |-> size, seq |-> next.seq]
                          ELSE IF i \in at + 1 .. at + size - 1 THEN Bytes
                          ELSE IF wrap /\ i = next.idx THEN Zero
                          ELSE log_buf[i]]
        /\ next' = [seq |-> next.seq + 1, idx |-> at + size]
        /\ UNCHANGED <<log_buf_len, syslog, syslog_partial, clear, reader>>

setup_log_buf == /\ log_buf_len < NewLen
                 /\ log_buf_len' = NewLen
                 /\ UNCHANGED <<log_buf, first, next, syslog, syslog_partial, clear, reader>>

----------------------------------------------------------------------------
(* "messages are gone, move to first one".                                 *)
Caught(c) == IF c.seq < first.seq THEN first ELSE c

(* One round of the loop of syslog_print, once there is something to read: *)
(* a whole record, its rest, or as much as the buffer takes.               *)
syslog_print ==
    /\ syslog.seq # next.seq
    /\ LET c == Caught(syslog)
           skip == IF c.seq = syslog.seq THEN syslog_partial ELSE 0
       IN  \/ syslog' = Advance(c) /\ syslog_partial' = 0
           \/ /\ \E n \in 1 .. log_from_idx(c.idx).len - Header - skip - 1 :
                    syslog_partial' = skip + n
              /\ syslog' = c
    /\ UNCHANGED <<log_buf, log_buf_len, first, next, clear, reader>>

(* SYSLOG_ACTION_SIZE_UNREAD and the poll of /proc/kmsg.                   *)
size_unread == /\ syslog' = Caught(syslog)
               /\ syslog_partial' = IF syslog'.seq = syslog.seq THEN syslog_partial ELSE 0
               /\ UNCHANGED <<log_buf, log_buf_len, first, next, clear, reader>>

SYSLOG_ACTION_CLEAR == /\ clear' = next
                       /\ UNCHANGED <<log_buf, log_buf_len, first, next, syslog, syslog_partial,
                                      reader>>

(* syslog_print_all: what fits is the youngest records up to now.  Each    *)
(* record is taken under the lock; it ends at the last or at a failed copy.*)
Section(c, last, clears) ==
    \/ /\ c.seq < last
       /\ reader' = [kind |-> "all", at |-> Advance(c), last |-> last, clears |-> clears]
       /\ UNCHANGED clear
    \/ /\ reader' = NoReader
       /\ clear' = IF clears THEN next ELSE clear

syslog_print_all ==
    /\ \/ /\ reader = NoReader
          /\ LET start == Caught(clear) IN
             \E s \in start.seq .. next.seq, clears \in BOOLEAN :
                Section(From(start)[s], next.seq, clears)
       \/ reader.kind = "all" /\ Section(Caught(reader.at), reader.last, reader.clears)
    /\ UNCHANGED <<log_buf, log_buf_len, first, next, syslog, syslog_partial>>

(* /dev/kmsg says EPIPE where others go on, and stays where it is put.     *)
devkmsg_open == /\ reader = NoReader
                /\ reader' = [NoReader EXCEPT !.kind = "kmsg", !.at = first]
                /\ UNCHANGED <<log_buf, log_buf_len, first, next, syslog, syslog_partial, clear>>

devkmsg_read == /\ reader.kind = "kmsg" /\ reader.at.seq # next.seq
                /\ reader' = [reader EXCEPT !.at = IF @.seq < first.seq THEN first
                                                   ELSE Advance(@)]
                /\ UNCHANGED <<log_buf, log_buf_len, first, next, syslog, syslog_partial, clear>>

devkmsg_llseek == /\ reader.kind = "kmsg"
                  /\ \E c \in {first, clear, next} : reader' = [reader EXCEPT !.at = c]
                  /\ UNCHANGED <<log_buf, log_buf_len, first, next, syslog, syslog_partial, clear>>

(* kmsg_dump starts a dumper, which reads forward by lines or backward by  *)
(* buffers, and may rewind.                                                *)
Rewound == [kind |-> "dump", at |-> clear, last |-> next.seq, clears |-> FALSE]
kmsg_dump_rewind == /\ reader.kind = "dump" \/ reader = NoReader
                    /\ reader' = Rewound
                    /\ UNCHANGED <<log_buf, log_buf_len, first, next, syslog, syslog_partial,
                                   clear>>

kmsg_dump_get_line ==
    /\ reader.kind = "dump"
    /\ LET c == Caught(reader.at) IN
       reader' = [reader EXCEPT !.at = IF c.seq >= next.seq THEN c ELSE Advance(c)]
    /\ UNCHANGED <<log_buf, log_buf_len, first, next, syslog, syslog_partial, clear>>

kmsg_dump_get_buffer ==
    /\ reader.kind = "dump"
    /\ LET c == Caught(reader.at) IN
       \/ c.seq >= reader.last /\ reader' = [reader EXCEPT !.at = c]
       \/ \E s \in c.seq .. reader.last : reader' = [reader EXCEPT !.at = c, !.last = s]
    /\ UNCHANGED <<log_buf, log_buf_len, first, next, syslog, syslog_partial, clear>>

ReaderDone == /\ reader.kind \in {"kmsg", "dump"}
              /\ reader' = NoReader
              /\ UNCHANGED <<log_buf, log_buf_len, first, next, syslog, syslog_partial, clear>>

LogBufNext == \/ \E n \in TextLens : log_store(Header + n)
              \/ setup_log_buf \/ syslog_print \/ size_unread \/ SYSLOG_ACTION_CLEAR
              \/ syslog_print_all \/ devkmsg_open \/ devkmsg_read \/ devkmsg_llseek
              \/ kmsg_dump_rewind \/ kmsg_dump_get_line \/ kmsg_dump_get_buffer \/ ReaderDone

LogBufSpec == LogBufInit /\ [][LogBufNext]_lbvars

----------------------------------------------------------------------------
(* c's index leads to the record of its sequence number, through the end   *)
(* of buffer marker if there is one.                                       *)
Leads(c) == /\ c.seq <= next.seq
            /\ IF c.seq = next.seq THEN c.idx = next.idx ELSE log_from_idx(c.idx).seq = c.seq

(* Whoever stands at a record that is still in the ring has the index of   *)
(* that very record, and from there every record after it is reached: a    *)
(* reader that compares sequence numbers alone never takes text for a      *)
(* header, after any number of laps, a clear or the move to a new buffer.  *)
CursorsAreSound ==
    \A c \in {first, syslog, clear, reader.at} :
       c.seq >= first.seq => \A s \in c.seq .. next.seq : Leads(From(c)[s])

(* "Short-cut for poll": the indices differ exactly while there is a       *)
(* record to read.  And a partial read has left some of its record.        *)
UnreadIsSeen ==
    /\ LET c == Caught(syslog) IN c.idx # next.idx <=> c.seq # next.seq
    /\ syslog_partial > 0 /\ syslog.seq >= first.seq =>
          /\ syslog.seq < next.seq
          /\ syslog_partial < log_from_idx(syslog.idx).len - Header

(* Together: nobody who reads the ring is misled by its index.             *)
ReadersKeepTheirPlace == CursorsAreSound /\ UnreadIsSeen
=============================================================================
