# TLA+ models of the virtual PCIe-over-TCP driver

These modules model `src/modules/virtual_pcie/`. It is a Linux kernel module.
It exposes an emulated PCIe device, and a TCP peer reads and writes that device.
`FakeAutosuspend` models a second, independent sample in `src/modules/fake_autosuspend/` (section 2).
Two of the user-space USB tools in `src/libusb-test/` are modelled too:
- `BlkserMultiWrite` models `rawbulk/blkser_multi_write.c`, a parent and two forked children that share one gadget device.
- `BulkFileTransfer` models a file download between a USB host and a gadget. The host side is `libusb_getfile/libusb_getfile.c` and the gadget side is `rawbulk/rawbulk_server.c`.

The rest of `src/` is listed at the end, with the reason it is not modelled.

## 1. The system

| Part | Code | State | Operations |
|---|---|---|---|
| Control surface | `virtual_pcie_core.c` `vpci_ioctl` | `dev->role` | CONNECT, DISCONNECT, GET_STATUS, SET_ROLE |
| Session / transport | `virtual_pcie_net.c` | `connected`, `sock`, `rx_thread`, `tx_thread`, `keepalive_timer`, `tx_list`, `reconnect_work` | `vpci_net_connect`, `vpci_net_disconnect`, `vpci_rx_thread`, `vpci_tx_thread`, `vpci_keepalive_timer`, `vpci_reconnect_work` |
| Outbound queue | `virtual_pcie_pkt.c` `vpci_packet_send` | `tx_list` under `tx_lock`, `tx_wait` | producers: handlers and keepalive; consumer: the TX kthread |
| Dispatcher | `virtual_pcie_pkt.c` | `session_id`, `handshake_comp`, `stats.errors` | `vpci_packet_process` and the handlers (config/mem read and write, IRQ, ACK, NACK, HANDSHAKE, KEEPALIVE) |
| Address space | `virtual_pcie_shmem.c` | `config_space`, `bars[6]`, `bar_count` | `vpci_bar_map`, `vpci_bar_unmap`, `vpci_config_*`, `vpci_mem_*` |
| Lifecycle | `virtual_pcie_core.c` | registrations, `vpci_idr`, drvdata, `dev->refcount`, `file->private_data`, `vpci_device_count` | `vpci_core_init`/`vpci_core_exit`, `vpci_probe`/`vpci_remove`, `vpci_open`/`vpci_release`, `vpci_device_init`/`vpci_device_exit` |

### How the parts interact

- A user thread issues the ioctls. CONNECT and DISCONNECT run `vpci_net_connect` and `vpci_net_disconnect` in the user's context.
- Connect starts two kthreads:
  - RX polls the socket with `MSG_DONTWAIT` and runs `vpci_packet_process` synchronously on every read.
  - TX sleeps on `tx_wait` until `tx_list` is non-empty, pops the head and sends it.
- Producers append to `tx_list` through `vpci_packet_send`. The producers are the handlers' ACK/NACK replies and the keepalive timer.
- A reset or orderly close seen by RX makes RX call `vpci_net_disconnect` and then `schedule_work(reconnect_work)`.
- The BAR table is changed by whoever holds the device, through `vpci_bar_map`/`vpci_bar_unmap`. Nothing under `src/` calls them and they are not `EXPORT_SYMBOL`ed; the model follows the spec's collaborator that would. It is read by the memory handlers on the RX thread. No lock orders the two.

### What is hard

- `kthread_stop` is a handshake: set the stop bit, wake the thread, wait for it to exit. A thread that stops itself never returns.
- TX uses the wait-queue condition protocol. A lost wake-up would strand packets.
- Socket release must happen after both threads have stopped, because both re-read `dev->sock`.
- Bounds checks are written as u64 sums, which wrap.
- The memory handlers scan the BAR table and then copy through `bars[i].addr`. The table can change between the two.

### Two facts found while reading

These shape every model.

1. **The code never decodes a header.** `vpci_rx_thread` kzallocs the packet and sets only `hdr.length` (`virtual_pcie_net.c:217`). The magic is therefore always 0, and every inbound packet is answered NACK(-EBADMSG).
   - No handler, handshake or IRQ is reachable from the wire.
   - TX likewise sends `pkt->data` without a header.
   - So the transport model answers every receive with a NACK, and the dispatcher is modelled on its own, at the contract of `vpci_packet_process`, with decoded headers as inputs.
2. **`vpci_reconnect_work` is reachable only through a stranded RX thread.** The RX thread that would schedule it deadlocks first (see `PeerCloseDisconnects`). `VpciReconnect` therefore models the worker on its own, started as the RX error path would start it.

## 2. Modules

| Module | Models | Composition |
|---|---|---|
| `VpciSession` | the session state machine of spec §4.2 (abstract; not mapped to code) | instantiated by `VpciTransport` |
| `VpciTransport` | ioctls, connect/disconnect procedures, RX loop, TX loop, keepalive timer, `vpci_packet_send` | refines `VpciSession` |
| `VpciReconnect` | `vpci_reconnect_work` racing the ioctls and the first two steps of `vpci_device_exit` | stand-alone |
| `VpciLifecycle` | module init/exit, probe/remove, open/release, the idr | stand-alone |
| `VpciAddressSpace` | config bounds, BAR table, `vpci_bar_map`/`vpci_bar_unmap`, BAR part of device exit | extended by `VpciDispatcher` |
| `VpciDispatcher` | `vpci_packet_process` and every handler, with BAR calls by a collaborator racing the RX thread | EXTENDS `VpciAddressSpace` |
| `FakeAutosuspend` | the `fake_autosuspend` driver and device modules: load/unload, probe/unbind, debugfs, the PM callbacks | stand-alone |
| `BlkserMultiWrite` | `blkser_multi_write.c`: the opens, the fork of two copying children, the echo loop, the waitpid loop | stand-alone |
| `BulkFileTransfer` | `libusb_getfile.c` (host) and `rawbulk_server.c` (gadget) exchanging a file over one bulk endpoint pair | composes both programs |
| `MCVpci*`, `MCFakeAutosuspend`, `MCBlkserMultiWrite`, `MCBulkFileTransfer` | model values, small sets and symmetry for TLC | |

### VpciTransport

Each user and each kthread has a `pc`. Kthreads are named by the socket whose connect started them: `<<s, "rx">>` and `<<s, "tx">>`.

Connect and disconnect are procedures of several steps, because kthread creation and stop can interleave with everything else:

- Connect: `ConnCreate`, `ConnConnect`, `ConnRx`, `ConnRxSet`, `ConnTx`, `ConnRxWait`, `ConnDone`.
- `ConnRx` is `kthread_run`: the RX thread is runnable from this step. `ConnRxSet` is the store of its result in `dev->rx_thread` (line 61), a separate step because RX can run in between.
- Disconnect: `DiscTx`, `DiscTxWait`, `DiscRx`, `DiscRxWait`, `DiscSock`, `DiscConn`.
- `kthread_stop` is `RequestStop` followed by a wait step guarded by `Exited(target)`.

Failures of `sock_create`, `kernel_connect` and `kthread_run` are disjuncts of their step.

The RX loop is three actions:

- `RxStop`: the thread sees its stop bit.
- `RxData`: a read. It sends a heap NACK through `PacketSend`.
- `RxLost`: a reset or zero-length read. The RX thread enters the disconnect procedure itself. The constant `EarlyPeerClose` says whether the peer may do this before connect has set `connected`.

The TX loop follows `vpci_tx_thread` line by line. Its points are: wait-condition check, sleep, re-check on wake-up, pop under the lock, connected/sock check, `kernel_sendmsg`.

`Keepalive` is the timer callback. Its packet is recorded as allocated on the stack.

Ghost state:

- `wire` records every `kernel_sendmsg` with the packet and the socket it went to.
- `work_pending` records `schedule_work`.

Data is abstracted to what the properties distinguish. A packet is its id, kind, allocation and the socket current when it was built. Statistics are left out.

**Refinement.** `Session == INSTANCE VpciSession WITH ...` maps the implementation state to the session:

- `state`: `connected` gives Handshaking; a user inside connect gives Connecting; otherwise Disconnected.
- `sockOpen`: `dev->sock` is set.
- `loops`: both `dev->rx_thread` and `dev->tx_thread` are set.

`SessionSpec == Session!Spec` is checked as a temporal property. The implementation never decodes a handshake, so Established is never reached.

### VpciReconnect

The worker's steps are `WorkerCheck` (`while (!connected)`), `WorkerConnect` (`vpci_net_connect` as one step with its outcome) and `WorkerSleep` (`msleep(delay)`, then `delay = min(delay*2, HZ*30)`).

- `CONFIG_HZ` is chosen in `Init` from `HZs`, because it is a property of the build.
- `slept` records every argument passed to `msleep`.
- A user does `UserCheck` (GET_STATUS returned 0), then `UserConnect`; `UserDisconnect` releases the socket.
- Device exit is `ExitDisconnect` (disconnect only if `connected`) followed by `ExitCancel` (`cancel_work_sync` returns once the worker has returned).
- `SleepsLastSpecDelay` compares `slept` with the spec's delays, through a RECURSIVE `Pow2`.
- `MaxAttempts` bounds the failed connects; a run of failures stands for a peer that stays away.
- Weak fairness holds for the worker's steps and the two exit steps: they are kernel code already running.

### VpciLifecycle

A device object is a number, one per `kzalloc`. `freed` holds the objects that were `kfree`d.

- `ModuleInit`: every registration may fail, and the failure unwinds what its error label (`Unwinds`) releases.
- Probe is two steps: `ProbeGetId` reserves the lowest free id with a NULL entry; `ProbeInit` allocates, initialises and publishes with `idr_replace`, and each failure puts the id back.
- `Remove` runs device exit, puts the id back and frees the object. It ignores `refcount`.
- `Open` and `Release` follow `vpci_open` and `vpci_release`.
- `ModuleExit` cannot run while a file is open (`fops.owner`) or a probe is running.
- `heap` holds, per device object, the buffers `vpci_device_init` allocated (`config`, `shmem`) that are not yet freed.
  - `DeviceInit(failed)` gives the buffers left by an init that fails at the config buffer, fails at the shared memory (its error path frees the config buffer), or succeeds.
  - `PutId` is `idr_remove` on an id, and `FreeBuffers` is the buffer part of `vpci_device_exit`.

### VpciAddressSpace / VpciDispatcher

Addresses are `AddrBits` wide. Every sum the code forms is taken modulo `2^AddrBits` (`AddU`), which keeps the u64 wrap-around of the bounds checks.

- An ioremap is a fresh mapping id. `maps` is the set not yet iounmapped.
- Every copy is recorded in `accesses` with its region, offset, length, limit, and whether the mapping was live at that moment.
- `Receive(p)` is `vpci_packet_process` for one request. It covers the magic check, then the switch, then the whole handler.
- Memory requests are split at the one place where the code can interleave:
  - `HandleMemStart` is the allocation and the BAR scan.
  - `MemCopy` is the copy through `bars[i].addr` and the reply.
- Allocation failures are disjuncts. They cover the data buffer, the response packet, and the ACK/NACK packet inside `vpci_send_ack`/`vpci_send_nack`, which then sends nothing.
- `BarCall` is a collaborator calling `vpci_bar_map`/`vpci_bar_unmap`.
- `DeviceExit` is the BAR part of `vpci_device_exit`. It happens after the RX thread has stopped.

### FakeAutosuspend

The sample is two modules. `device/main.c` registers a platform device with runtime-PM callbacks. `driver/main.c` binds to it and puts it under autosuspend. `driver/debugfs.c` exposes `suspend_state`: reading it reports `is_suspended`, and writing 1 or 0 takes or drops a usage reference.

- The private data is a number, one per `devm_kzalloc` (`nPriv`). `freed` holds the numbers devres released at unbind.
- `file` is the private data of the debugfs file; `dirExists` says whether the directory is still there. `debugfsDir` is the driver's global: NULL, a directory, or `ERR_PTR(-EEXIST)`.
- The PM core is reduced to `usage` (usage_count), `depth` (disable_depth) and `status`. `checked` says whether the kernel refuses to drop the usage count below 0 (recent kernels) or lets it go negative.
- `Unbind` is the driver core's `__device_release_driver`. It brackets `my_device_remove` with `pm_runtime_get_sync`/`put_sync`, so an enabled suspended device is resumed. devres then frees the private data. The debugfs file is left in place.
- `RuntimeSuspend`/`RuntimeResume` are the PM core calling the runtime callbacks. The callbacks change `is_suspended` only while a driver is bound.
- `SystemSuspend`/`SystemResume` are the system-sleep callbacks. While asleep, only resume runs.
- `DebugfsRead`/`DebugfsWrite` set `staleUse` when they dereference freed private data.

### BlkserMultiWrite

The device is one byte stream written by three processes. Each `write()` is one bulk transfer, recorded in `wire` as a piece with three fields:
- its writer: 0 for the parent's echo, or child k;
- its index among that writer's writes;
- whether the whole buffer went out.

Contents and sizes are abstracted away. A file is `Chunks` reads that return data.

- `Open` is the argument check and the three opens. A file open may fail only for files in `MayFailOpen`. The code never tests those results: its checks test `dev_fd` again.
- `FirstRead` is the blocking first read of a host packet.
- `Fork` is `copy_file_with_process` for each file in turn. A failed fork exits the parent.
- `Echo` is one pass of the echo loop. A read of 0 or -1 ends the loop, and so does a short read or a write that is not whole.
- `Wait` is `blkser_wait_pid` for child 1, then for child 2. It returns once the child has exited or been killed.
- `Copy(k)` is one pass of `copy_file` in child k.
  - `ReadResults(k)`: a read of fd -1 fails, a read at end of file returns 0, and a read of an open file before its end may return data or fail with -1. Anything but data ends the loop and exits with status 0.
  - A write may be whole, partial or -1. Anything but a whole write exits with status 1.
- `Kill(k)` is a signal from outside killing a copying child.

### BulkFileTransfer

The host sends a file name on the bulk OUT endpoint. It then reads 1024-byte IN transfers into the saved file, until `transferred < 512`. The server reads a name. If the file is readable, the server writes it in 512-byte blocks and stops after a short one.

- A file is `Served[n]`: a number of full blocks and perhaps a short tail. `Packets(n)` is the sequence of packets the server writes for it. A missing file is `Missing`, and the server skips it with `continue`.
- A gadget write blocks until the host takes it, so `slot` holds at most one packet in flight.
- `xfer` holds the packets of the IN transfer under way. A transfer ends in one of three ways: on two full packets, on a short packet, or on the 5000 ms timeout.
- `big` is the host's `transferred >= 512`. It is kept across steps because a failed submit leaves `transferred` unwritten.
- Host steps:
  - `HostSend` is `main` up to the OUT transfer, and every early return there.
  - `HostReceive` is a transfer that completes with r = 0. Its data is written to `save_fd`.
  - `HostTimeout` is a transfer that times out. Its partial data is dropped. It can fire only once the server has nothing left to send, unless `SlowServer` holds.
  - `HostSubmitFail` is a transfer after `Unplug`. The loop then tests the stale `transferred`.
  - `HostRestart` runs the program again, up to `MaxSessions` runs.
- `ServeRequest` is the server's open of the requested name. `file_fd` is never closed, so `fds` counts the open files; at `FdLimit` the open returns -1, the check after it tests `dev_fd`, and `read(-1)` ends the send at once with nothing sent.
- `ServerSend` is one pass of the server's send loop.
- `Unplug` detaches the gadget. It is enabled only when `MayUnplug` holds.

## 3. Runs

### Passing runs

- **`transport_safety`** (`VpciTransport_safety.cfg`), about 98k states, 25 s.
  - Setting: one user who checks GET_STATUS before CONNECT, `MaxSockets = 2`, `MaxPackets = 3`, and a peer that closes only once the connection is up (`EarlyPeerClose = FALSE`).
  - `AtMostOneSocket`: at most one live socket.
  - `ThreadsUseLiveSocket`: no socket is released while a kthread that re-reads `dev->sock` still runs.
  - `TxDrains`: every queued packet is eventually taken unless TX is being stopped, so no wake-up is lost.
  - `SessionSpec`: every behaviour is a session behaviour. In particular, the socket is released only after both loops have stopped, and the session goes down only with neither left.
  - Deadlock is not checked, because the RX self-stop really stops the system.
  - With a peer that may close at any time, `TypeOK`, `AtMostOneSocket` and `TxDrains` still hold (about 837k states, 4.5 min). `ThreadsUseLiveSocket` does not: see `VpciTransport_early_close.cfg` below. `SessionSpec` does not either: see `transport_connect_window`.
- **`reconnect_safety`** (`VpciReconnect_safety.cfg`), about 1.3k states.
  - Setting: `HZs = {100, 250, 300, 1000}` and `MaxAttempts = 6`. The sixth wait is the first one at the 30·HZ ceiling.
  - `TypeOK` only, with deadlock checked: every mix of worker, user and device exit can go on or has ended. The worker's deeper properties are each violated; see the violation runs.
- **`lifecycle_safety`** (`VpciLifecycle_safety.cfg`), about 7.7k states.
  - Setting: three platform devices and two ids (so the idr can be full), two files, five objects, with symmetry over devices and files.
  - `IdrHoldsLiveDevices`: open can only find a live device, at its own id.
  - `UnloadedHoldsNothing`: every init failure is unwound.
  - `NoBufferLeak`: a device object whose config or shared-memory buffer is still allocated is the drvdata of some platform device. Every init failure and every remove frees the buffers.
- **`dispatcher_safety`** (`VpciDispatcher_safety.cfg`), about 360k states, 15 s.
  - Setting: 4-bit addresses, config size 8, 3 BAR slots, 2 requests and 2 BAR calls, all 12 header types at addresses {0, 7, 15} and lengths {1, 2}, `connected` either way.
  - `NoMappingLeak`: re-mapping releases the old mapping.
  - `AtMostOneResponse`: every request is answered at most once, with its own seq.
  - Runs end in device exit, after which nothing is enabled.

- **`autosuspend_safety`** (`FakeAutosuspend_safety.cfg`), about 1.3k states.
  - Setting: a kernel that checks usage-count underflow, up to three private-data allocations (bind, rebind, a rebind after reloading), usage count up to 2.
  - `TypeOK` only. On this kernel the count is clamped at 0, so `UsageNeverNegative` holds by the kernel's own check; it is checked on an older kernel in `FakeAutosuspend_underflow.cfg`.

- **`blkser_safety`** (`BlkserMultiWrite_safety.cfg`), about 26k states.
  - Setting: files of two chunks, up to two echoed packets, and both file opens succeed. Every read and write result and every kill is allowed.
  - `ParentReaps`: once the echo loop ends, `main` returns, whether the children exit or are killed.
  - Deadlock is not checked, because the program ends.
- **`bulkfile_safety`** (`BulkFileTransfer_safety.cfg`), about 540 states.
  - Setting: three runs of the host, a server that answers before the timeout, two descriptors, and a gadget that may be unplugged. The files are one full block, two full blocks and a tail, two full blocks, and a missing file.
  - `ReceiveEnds`: while the gadget stays attached, every receive loop ends.
  - Deadlock is not checked, because the host stops after its last run.

### Violation runs

Each finding in `PROJECT.json` says what the violation shows.

| Run | Property | What TLC finds |
|---|---|---|
| `transport_rx_self_stop` | `PeerCloseDisconnects` | RX calls `kthread_stop` on itself; `connected` stays 1 |
| `transport_connect_window` | `SessionSpec` | a peer reset between starting RX and `connected = 1`: the trace ends when RX stops the TX thread while the session is still connecting; the code then marks the session up with no TX loop |
| `reconnect_exit_leak` | `ExitReleasesSocket` | device exit tests `connected`, then `cancel_work_sync` waits for a reconnect that succeeds in between |
| `autosuspend_stale_debugfs` | `DebugfsUsesLivePriv` | probe, then unregistering the device (unbind frees the private data), then a read of `suspend_state` |
| `bulkfile_lost_block` | `SavedIsComplete` | with no unplug and a descriptor for every run, a file of one full block: the transfer waits for a second packet, times out, and drops the block; `transferred` is 512, so the next transfer also times out, and the run ends with an empty file |

More properties are stated in the modules, each with a cfg that finds it violated. Their runs are not listed in `PROJECT.json`; the hazards record them with the trace.

| Cfg | Property | What TLC finds |
|---|---|---|
| `VpciTransport_keepalive_stack.cfg` | `QueuedPacketsOnHeap` | the keepalive timer queues a stack object |
| `VpciLifecycle_remove_open.cfg` | `FilesPinDevice` | `vpci_remove` frees a device that an open file still points to |
| `VpciDispatcher_cfg_wrap.cfg` | `AccessesInBounds` | `addr + len` wraps and passes the config check |
| `VpciTransport_early_close.cfg` | `ThreadsUseLiveSocket` | RX runs before `dev->rx_thread` is stored, sees the peer close, skips its self-stop, releases the socket and exits; connect then stores the dead task and starts TX with no socket |
| `VpciReconnect_exit_hang.cfg` | `ExitCompletes` | device exit waits in `cancel_work_sync` for a worker whose every connect fails |
| `BlkserMultiWrite_read_error.cfg` | `ChildSuccessMeansCopied` | both files open, a `read` fails mid-file; the loop ends as at end of file and the child exits with status 0 |
| `BulkFileTransfer_fd_leak.cfg` | `SavedIsComplete` | one descriptor: the first run's `file_fd` is never closed, the second run's open fails, and the host saves an empty file |
| `BlkserMultiWrite_missing_file.cfg` | `ChildSuccessMeansCopied` | a file that fails to open is copied as an empty file, and its child exits with status 0 |
| `BulkFileTransfer_slow_server.cfg` | `SavedIsPrefix` | a server slower than the 5000 ms timeout: a timed-out transfer drops a block, and later ones are saved after the gap |
| `BulkFileTransfer_unplug_spin.cfg` | `UnplugEndsReceive` | after an unplug, every submit fails and `transferred` keeps 512 or more, so the loop never ends |
| `VpciDispatcher_unmap_race.cfg` | `BarAccessLive` | an unmap between scan and copy |
| `FakeAutosuspend_flag.cfg` | `FlagTracksStatus` | unbind resumes the device, and the rebind's probe sets `is_suspended` on an active device |
| `FakeAutosuspend_underflow.cfg` | `UsageNeverNegative` | on a kernel without the underflow check, probe's `pm_runtime_put_autosuspend` takes the count to -1 |
| `VpciTransport_double_connect.cfg` | `AtMostOneSocket` | CONNECT while connected leaks a socket and kthreads |
| `VpciTransport_stale_delivery.cfg` | `NoStaleDelivery` | packets left on `tx_list` go out on the next connection |
| `VpciReconnect_double_connect.cfg` | `AtMostOneSocket` | the worker and a user both see `connected = 0` and both connect |
| `VpciReconnect_sleep_units.cfg` | `SleepsLastSpecDelay` | `msleep` is given jiffies: at HZ = 250 the first wait is 500 ms, not 2 s |
| `VpciDispatcher_teardown_leak.cfg` | `TeardownUnmapsAll` | device exit unmaps BARs 0 and 1 only |
| `VpciDispatcher_bar_count_drift.cfg` | `BarCountMatches` | a size-0 map counts a BAR that has no mapping |
| `VpciDispatcher_irq_number.cfg` | `IrqIsAddress` | `be32_to_cpu` on the `__be64` address |
| `VpciDispatcher_mem_miss_errors.cfg` | `MemMissCounted` | an -ENXIO NACK is not counted as an error (spec §8) |

### Why the bounds are enough

- Two sockets are enough for a second connection after a disconnect, which is what the stale delivery and the double connect need.
- Three packets let the queue hold two while TX holds one.
- Six reconnect attempts reach the ceiling (2^5 > 30). Four CONFIG_HZ values cover the common builds.
- Two ids for three platform devices make the idr fill up. Five objects allow a failed init, two bound devices, and a re-probe after remove.
- Four address bits give a config window, a BAR window and an address whose sum with a length wraps.
- Three BAR slots put one slot outside the two that device exit unmaps.
- Three private-data allocations in `FakeAutosuspend` allow bind, unbind and rebind, and a further rebind after a module reload. A usage count of 2 lets a write of 1 follow the probe's put and be undone.
- In `BlkserMultiWrite`, two chunks per file let a child fail on its second write after a whole first one. Two echoes put parent pieces between the children's pieces.
- In `BulkFileTransfer`, the files cover every way a transfer can end: an odd count of full blocks (one), an even count without a tail (two), an even count with a tail, and a missing file. Three runs let a later run meet the state an earlier run left behind.
- Two BAR calls are enough to map and re-map, or to map and unmap under an in-flight copy.

### Fairness

Weak fairness is assumed only for kernel code that has already started:

- the steps of a running connect or disconnect procedure;
- every TX step;
- RX noticing its stop bit.

The scheduler runs a runnable kthread, and a system call in progress continues.

In the user-space programs, the scheduler runs a runnable process. `BlkserMultiWrite` assumes weak fairness for `Wait` and `Copy`. A child's blocking write completes because the host drains the device. Host packets and signals are not forced. `BulkFileTransfer` assumes weak fairness for the host's steps, including the expiry of its transfer timer, and for the server's send. Unplugging and rerunning the host are not forced. Issuing an ioctl, a peer sending, and the timer expiring are not forced. `VpciReconnect` assumes weak fairness for the worker and the two exit steps, which are kernel code already running; the user is not forced. `VpciLifecycle` and `FakeAutosuspend` check only safety and have no fairness.

## 4. Not modelled, and why

- **The codec**: there is no encoder or decoder in the code.
- **Composition**:
  - `VpciReconnect` takes `vpci_net_connect` as one step.
  - `VpciLifecycle` takes `vpci_device_init`/`vpci_device_exit` as one step.
  - Their insides are `VpciTransport` and `VpciDispatcher`.
  - Composing all of them exceeds what TLC explores in minutes. Each race found lies between two parts only.
- **`kprobe_carrier_on`**: a kprobe that only logs; it has no state that a property could observe.
- **The PM core's internals** in `FakeAutosuspend`: the autosuspend timer, idle requests and the work queue are collapsed into the runtime callbacks being allowed whenever the PM core's conditions hold.
- **`*.mod.c`**: generated.
- **The other `libusb-test` tools** (`read_write_loop` twice, `read_bulk_file`, `usb_file_server`, and `libusb_read_bulk` in `libusb_getfile.c`, which `main` never calls): single-process copy loops with no shared state. Each is a sequence of I/O calls, and nothing interleaves with it.
- **`rawbulk_server` after a detach**: it is modelled only as far as breaking out to read the next name. Re-enumeration of the gadget is outside the program.
- **waitpid stop/continue reports** in `blkser_wait_pid`: they only loop, and no signal in the model stops a child.
