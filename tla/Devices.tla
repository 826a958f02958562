-------------------------------- MODULE Devices --------------------------------
(***************************************************************************)
(* The trampoline's stand-in for ueventd (trampoline/devices.c).  The      *)
(* kernel tells of every device that comes or goes through a netlink       *)
(* socket; devices_init walks the part of sysfs the device's build names   *)
(* and has the kernel repeat itself, and then leaves the socket to a       *)
(* thread.  Whoever reads it makes and unlinks the nodes of /dev and the   *)
(* links that name a partition after its platform device.                  *)
(***************************************************************************)
EXTENDS Naturals, FiniteSets, Sequences, SequencesExt

CONSTANTS
    Paths,          \* the directories of sysfs that are devices
    Subsystem,      \* "platform", "block", "usb" (with an interface link) or "char", by path
    Above,          \* the paths a path is under
    NodeName,       \* its name in /dev
    Labels,         \* its partition name and number, or its USB interface
    InitDevices,    \* the lists mr_init_devices may be: of [path, op]
    BootDevice,     \* MR_DEV_BLOCK_BOOTDEVICE
    SocketRoom,     \* bound: the events the socket holds
    Swaps           \* bound: of devices plugged in and out

ASSUME DevicesAssumption ==
    /\ Subsystem \in [Paths -> {"platform", "block", "usb", "char"}]
    /\ Above \in [Paths -> SUBSET Paths]
    /\ \A p \in Paths : p \notin Above[p] /\ \A q \in Above[p] : Above[q] \subseteq Above[p]
    /\ InitDevices \subseteq Seq([path : Paths, op : {"single", "folder"}])
    /\ BootDevice \in BOOLEAN /\ SocketRoom \in Nat /\ Swaps \in Nat

VARIABLES
    plugged,        \* what is in sysfs
    device_fd,      \* the socket is open
    socket,         \* the events not yet read
    platform_names,
    nodes,          \* /dev: the device a node was made for, by name
    links,          \* the name of the node a link leads to, by link
    walk,           \* what devices_init has yet to visit
    reading,        \* "main" or "thread" is in handle_device_fd, or "nobody"
    uevent_thread,  \* "none", "runs" or "ended"
    run_event_thread,
    swaps,
    announced,      \* history: the kernel has told of them since the socket was opened
    mishaps         \* history: what makes /dev differ from sysfs

deviceVars == <<plugged, device_fd, socket, platform_names, nodes, links, walk, reading, uevent_thread,
                run_event_thread, swaps, announced, mishaps>>

DevicesInit ==
    /\ plugged \in {s \in SUBSET Paths : \A p \in s : Above[p] \subseteq s}
    /\ \A p, q \in plugged : NodeName[p] = NodeName[q] => p = q
    /\ device_fd \in BOOLEAN
    /\ socket = <<>> /\ platform_names = <<>>
    /\ nodes = <<>> /\ links = <<>>
    /\ walk \in InitDevices
    /\ reading = "nobody" /\ uevent_thread = "none" /\ run_event_thread = TRUE
    /\ swaps = 0 /\ announced = {} /\ mishaps = {}

-----------------------------------------------------------------------------
\* The kernel.

\* An event is dropped when the socket's buffer is full.
Tell(action, p) ==
    IF ~device_fd THEN UNCHANGED <<socket, announced, mishaps>>
    ELSE IF Len(socket) = SocketRoom
         THEN mishaps' = mishaps \cup {"lost"} /\ UNCHANGED <<socket, announced>>
    ELSE /\ socket' = Append(socket, [action |-> action, path |-> p])
         /\ announced' = IF action = "add" THEN announced \cup {p} ELSE announced \ {p}
         /\ UNCHANGED mishaps

ReadersAlone == UNCHANGED <<device_fd, platform_names, nodes, links, walk, reading, uevent_thread, run_event_thread>>

\* The kernel gives no name twice.
Comes(p) ==
    /\ p \notin plugged /\ Above[p] \subseteq plugged
    /\ \A q \in plugged : NodeName[q] # NodeName[p]
    /\ plugged' = plugged \cup {p}
    /\ Tell("add", p)
    /\ ReadersAlone

Goes(p) ==
    /\ p \in plugged /\ \A q \in plugged : p \notin Above[q]
    /\ plugged' = plugged \ {p}
    /\ Tell("remove", p)
    /\ ReadersAlone

Swap(p) ==
    /\ swaps < Swaps
    /\ Comes(p) \/ Goes(p)
    /\ swaps' = swaps + 1

-----------------------------------------------------------------------------
\* The handlers.

\* The platform device a path is under: the last one added.
find_platform_device(names, p) ==
    LET under == {i \in DOMAIN names : names[i] \in Above[p]}
    IN  IF under = {} THEN "none" ELSE names[CHOOSE i \in under : \A j \in under : j <= i]

remove_platform_device(p) ==
    LET same == {i \in DOMAIN platform_names : platform_names[i] = p}
    IN  IF same = {} THEN platform_names
        ELSE RemoveAt(platform_names, CHOOSE i \in same : \A j \in same : j <= i)

parse_platform_block_device(names, p) ==
    LET pdev == find_platform_device(names, p)
    IN  IF pdev = "none" THEN {}
        ELSE {pdev} \X (Labels[p] \cup {NodeName[p]})
             \cup (IF BootDevice THEN {"bootdevice"} \X (Labels[p] \cup {NodeName[p]}) ELSE {})

get_character_device_symlinks(names, p) ==
    IF Subsystem[p] # "usb" \/ find_platform_device(names, p) = "none" THEN {}
    ELSE {"usb"} \X Labels[p]

LinksOf(names, p) ==
    IF Subsystem[p] = "block" THEN parse_platform_block_device(names, p)
    ELSE get_character_device_symlinks(names, p)

\* Neither mknod nor symlink replaces what is there.
handle_device_add(p) ==
    LET mine == LinksOf(platform_names, p)
    IN  /\ nodes' = [n \in DOMAIN nodes \cup {NodeName[p]} |-> IF n \in DOMAIN nodes THEN nodes[n] ELSE p]
        /\ links' = [l \in DOMAIN links \cup mine |-> IF l \in DOMAIN links THEN links[l] ELSE NodeName[p]]
        /\ mishaps' = IF \E l \in mine \cap DOMAIN links : links[l] # NodeName[p]
                      THEN mishaps \cup {"eclipsed"} ELSE mishaps

\* The node is unlinked without its links.
handle_device_remove_Unlinked(p) ==
    /\ nodes' = [n \in DOMAIN nodes \ {NodeName[p]} |-> nodes[n]]
    /\ UNCHANGED <<links, mishaps>>

\* remove_link only takes a link that leads to this node.
handle_device_remove(p) ==
    LET mine == {l \in LinksOf(platform_names, p) \cap DOMAIN links : links[l] = NodeName[p]}
    IN  /\ links' = [l \in DOMAIN links \ mine |-> links[l]]
        /\ nodes' = [n \in DOMAIN nodes \ {NodeName[p]} |-> nodes[n]]
        /\ UNCHANGED mishaps

handle_device(action, p) ==
    /\ action = "add" => handle_device_add(p)
    /\ action = "remove" => handle_device_remove(p)
    /\ UNCHANGED platform_names

\* A device that has its node is found under another platform device than before.
Regroups(names) ==
    \E n \in DOMAIN nodes : LinksOf(names, nodes[n]) # LinksOf(platform_names, nodes[n])

handle_platform_device_event(action, p) ==
    LET names == IF action = "add" THEN Append(platform_names, p) ELSE remove_platform_device(p)
    IN  /\ platform_names' = names
        /\ mishaps' = IF Regroups(names) THEN mishaps \cup {"regrouped"} ELSE mishaps
        /\ UNCHANGED <<nodes, links>>

handle_device_event ==
    LET event == Head(socket)
    IN  /\ socket # <<>>
        /\ socket' = Tail(socket)
        /\ IF Subsystem[event.path] = "platform"
           THEN handle_platform_device_event(event.action, event.path)
           ELSE handle_device(event.action, event.path)

\* handle_device_fd reads until there is nothing more.
handle_device_fd ==
    \/ /\ reading # "nobody" /\ handle_device_event
       /\ UNCHANGED <<plugged, device_fd, walk, reading, uevent_thread, run_event_thread, swaps, announced>>
    \/ /\ reading # "nobody" /\ socket = <<>>
       /\ reading' = "nobody"
       /\ UNCHANGED <<plugged, device_fd, socket, platform_names, nodes, links, walk, uevent_thread,
                      run_event_thread, swaps, announced, mishaps>>

-----------------------------------------------------------------------------
\* devices_init and its thread.

Below(p) == {q \in plugged : p \in Above[q] /\ \A r \in Above[q] : r # p => r \in Above[p]}

\* Writing "add" to a uevent file has the kernel tell of the device; a device that is not
\* there (any more) cannot be opened.  A folder's own devices are listed when it has been
\* read: those that come later tell of themselves.
init_single_path ==
    LET here == Head(walk)
    IN  /\ device_fd /\ uevent_thread = "none" /\ reading = "nobody"
        /\ walk # <<>> /\ here.op # "list"
        /\ walk' = (IF here.op = "folder" THEN <<[here EXCEPT !.op = "list"]>> ELSE <<>>) \o Tail(walk)
        /\ IF here.path \in plugged
           THEN Tell("add", here.path) /\ reading' = "main"
           ELSE UNCHANGED <<socket, announced, mishaps, reading>>
        /\ UNCHANGED <<plugged, device_fd, platform_names, nodes, links, uevent_thread, run_event_thread, swaps>>

init_folder ==
    LET here == Head(walk)
    IN  /\ device_fd /\ uevent_thread = "none" /\ reading = "nobody"
        /\ walk # <<>> /\ here.op = "list"
        /\ \E order \in SetToSeqs(Below(here.path)) :
             walk' = [i \in DOMAIN order |-> [path |-> order[i], op |-> "folder"]] \o Tail(walk)
        /\ UNCHANGED <<plugged, device_fd, socket, platform_names, nodes, links, reading, uevent_thread,
                       run_event_thread, swaps, announced, mishaps>>

devices_init_Ends ==
    /\ device_fd /\ uevent_thread = "none" /\ walk = <<>> /\ reading = "nobody"
    /\ uevent_thread' = "runs" /\ run_event_thread' = TRUE
    /\ UNCHANGED <<plugged, device_fd, socket, platform_names, nodes, links, walk, reading, swaps, announced, mishaps>>

\* Ten times a second, while it is to run.
uevent_thread_work ==
    /\ uevent_thread = "runs" /\ reading = "nobody"
    /\ \/ run_event_thread /\ socket # <<>> /\ reading' = "thread" /\ UNCHANGED uevent_thread
       \/ ~run_event_thread /\ uevent_thread' = "ended" /\ UNCHANGED reading
    /\ UNCHANGED <<plugged, device_fd, socket, platform_names, nodes, links, walk, run_event_thread, swaps,
                   announced, mishaps>>

\* What main calls at the end, before it joins the thread.
devices_close ==
    /\ run_event_thread' = FALSE
    /\ UNCHANGED <<plugged, device_fd, socket, platform_names, nodes, links, walk, reading, uevent_thread, swaps,
                   announced, mishaps>>

DevicesNext ==
    \/ \E p \in Paths : Swap(p)
    \/ handle_device_fd
    \/ init_single_path \/ init_folder \/ devices_init_Ends
    \/ uevent_thread_work

-----------------------------------------------------------------------------
\* Those the kernel has told of, and that have a number.
Expected == {p \in announced : Subsystem[p] # "platform"}

\* /dev follows sysfs (handle_device_event): as long as no event was lost, once the socket
\* has been read every device told of has its node, no other is left, no node stands for a
\* device that has gone and come back as another, and each partition can be found under its
\* platform device, its links leading to its own node.  A link that leads nowhere, or is
\* missing, is only met after the kernel has moved devices to another platform device, or
\* given two partitions one name.
DevFollows ==
    "lost" \notin mishaps =>
        /\ socket = <<>> =>
              /\ {nodes[n] : n \in DOMAIN nodes} = Expected
              /\ \A n \in DOMAIN nodes : NodeName[nodes[n]] = n
        /\ mishaps = {} =>
              /\ \A l \in DOMAIN links : links[l] \in DOMAIN nodes
              /\ DOMAIN links = UNION {LinksOf(platform_names, nodes[n]) : n \in DOMAIN nodes}
===============================================================================
