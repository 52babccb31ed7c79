------------------------------- MODULE Pages --------------------------------
(***************************************************************************)
(* How the daemon turns the views of its configuration into the pages of   *)
(* a manifest (config.rs), for the number of guests there are.             *)
(*                                                                         *)
(* A page keeps what it shows and, as its title, the view it comes from.   *)
(* Indices and offsets count from 0, as in the code.                       *)
(***************************************************************************)
EXTENDS Naturals, Sequences, SequencesExt

DivCeil(a, b) == (a + b - 1) \div b

Larger(a, b) == IF a >= b THEN a ELSE b

Smaller(a, b) == IF a <= b THEN a ELSE b

\* skip(index * size) and take(size)
Chunk(s, index, size) == SubSeq(s, index * size + 1, Smaller((index + 1) * size, Len(s)))

Ids(items) == [k \in 1..Len(items) |-> items[k].id]

\* Position of the first of the items with that ID.
Position(items, id) == (CHOOSE k \in 1..Len(items) :
                          /\ items[k].id = id
                          /\ \A l \in 1..(k - 1) : items[l].id # id) - 1

Resolvable(items, ids) == \A k \in 1..Len(ids) : ids[k] \in ToSet(Ids(items))

resolve_indices(items, ids) == [k \in 1..Len(ids) |-> Position(items, ids[k])]

-----------------------------------------------------------------------------
(* The pages of one view.                                                  *)

\* Mutant: the disks do not count.
FilesystemPages(filesystems, disks) == Larger(DivCeil(Len(filesystems), 3), 1)

StoragePages(filesystems, disks) ==
    Larger(Larger(DivCeil(Len(filesystems), 3), DivCeil(Len(disks), 5)), 1)

\* compile_pages_for on one view of the configuration.
ViewPages(config, id, guest_count) ==
    LET view == config.views[id]
    IN  CASE view.layout = "guests" /\ view.paginate ->
               [k \in 1..DivCeil(Larger(guest_count, 1), 4) |->
                  [title |-> id, page |-> "guests", offset |-> (k - 1) * 4, limit |-> 4]]
          [] view.layout = "guests" /\ ~view.paginate ->
               << [title |-> id, page |-> "guests", offset |-> view.offset, limit |-> view.limit] >>
          [] view.layout = "storage" ->
               LET filesystems == resolve_indices(config.filesystems, view.filesystems)
                   disks == resolve_indices(config.smart, view.smart)
               IN  [k \in 1..StoragePages(filesystems, disks) |->
                      [title |-> id, page |-> "storage",
                       filesystems_left |-> view.filesystems_left,
                       filesystem_indices |-> Chunk(filesystems, k - 1, 3),
                       smart_indices |-> Chunk(disks, k - 1, 5)]]
          [] view.layout = "power_network" ->
               << [title |-> id, page |-> "power_network", ups_left |-> view.ups_left] >>
          [] view.layout \in {"overview", "resources"} -> << [title |-> id, page |-> view.layout] >>

-----------------------------------------------------------------------------
(* The pages of an output, and the manifests they go into.                 *)

\* compile_pages_for returns pages and not an error.
Compiles(config, view_ids) ==
    /\ view_ids # <<>>
    /\ \A k \in 1..Len(view_ids) :
          /\ view_ids[k] \in DOMAIN config.views
          /\ LET view == config.views[view_ids[k]]
             IN  view.layout = "storage" => /\ Resolvable(config.filesystems, view.filesystems)
                                            /\ Resolvable(config.smart, view.smart)

compile_pages_for(config, view_ids, guest_count) ==
    FlattenSeq([k \in 1..Len(view_ids) |-> ViewPages(config, view_ids[k], guest_count)])

\* DisplayConfig::new
DisplayConfigNew(hold, delay, pages) == pages # <<>> /\ hold # 0 /\ delay < hold

\* The largest u16.
MaxMillis == 2^16 - 1

DisplayConfigured(config, guest_count) ==
    /\ config.hold_time <= MaxMillis /\ config.animation_delay <= MaxMillis
    /\ Compiles(config, config.lcd)
    /\ DisplayConfigNew(config.hold_time, config.animation_delay,
                        compile_pages_for(config, config.lcd, guest_count))

\* Views of an HTTP output, whether it is enabled or not.
NetworkConfigured(config, guest_count) == config.http # <<>> => Compiles(config, config.http[1].views)

\* Mutant: a full last page counts as one more.
GuestPageCountOver(guest_count) == guest_count \div 4 + 1

\* What the main loop compares to see whether the manifests must be sent again.
guest_page_count(guest_count) == DivCeil(Larger(guest_count, 1), 4)

=============================================================================
