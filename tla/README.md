# TLA+ models of LibMbedTls

LibMbedTls is the Duet3D fork of Mbed TLS 3.6 LTS: the upstream C library
(`library/`, `include/`), per-target configurations for RepRapFirmware
(`configs/config-same5x.h`, `configs/config-same70.h`, both TLS 1.3 servers on
a microcontroller) and hardware drivers for AES, AES-GCM, the TRNG and the
PUKCC elliptic-curve coprocessor (`drivers/`).  `LOCAL_CHANGES.md` lists what
the fork changes.

This directory holds TLA+ models of the parts of the library that keep state
across calls, the TLC configurations that check them on small instances, and
proofs checked by TLAPS.

## 1. Inventory

### 1.1 Parts, their state and their operations

| part | source | state | operations |
|---|---|---|---|
| PSA key store | `psa_crypto_slot_management.[ch]`, key management half of `psa_crypto.c`, `psa_crypto_storage.c` | array of key slots (state, reader counter, attributes, material), initialisation flags, the ITS files | lock/unlock a slot, reserve/evict, load, create (import, generate, derive, copy), destroy, open/close/purge, init/free |
| Dynamic key store | `psa_crypto_slot_management.c` under `MBEDTLS_PSA_KEY_STORE_DYNAMIC` | slices of slots, a free list per slice threaded through the slots | allocate a slice, take a slot from the free list, give it back |
| PSA storage and transactions | `psa_crypto_storage.c`, `psa_its_file.c`, `psa_crypto_se.c`, `psa_crypto.c` | one transaction record in memory and in a file, SE persistent data, key files | save/load/stop a transaction, recovery at start-up, set by temporary file and rename |
| PSA multipart operations | `psa_crypto.c` | operation objects: driver id, alg, IV/nonce/key set flags, remaining lengths, key derivation states | setup, set nonce/IV/lengths, update, finish, verify, abort |
| TLS record layer | `ssl_msg.c` | input and output buffers, counters, epochs, transforms, alert and fragment bookkeeping | fetch input, flush output, read/write record, buffer and replay messages, alerts, `mbedtls_ssl_read/write` |
| DTLS reliability | `ssl_msg.c` | flight list and position, retransmission state and timeout, reassembly slots, anti-replay window | append, transmit, resend, flight completed, buffer message, replay check and update |
| TLS handshake | `ssl_tls.c`, `ssl_tls12_*.c`, `ssl_tls13_*.c`, `ssl_client.c` | `ssl->state`, `ssl->handshake`, negotiated session, transforms | one step per handshake state, reset, renegotiation |
| Session cache | `ssl_cache.c` | linked list of (session id, session, time), bound, timeout | get, set, remove, set bound and timeout |
| Session tickets | `ssl_ticket.c` | two ticket keys with name, generation time, lifetime; the active index | setup, rotate, write, parse |
| DTLS cookies | `ssl_cookie.c` | HMAC key, timeout, serial | setup, write, check |
| Duet hardware drivers | `drivers/*.cpp`, `*_alt.h` | GCM contexts over one engine, AES key cache, PUKCC workspace | starts, update_ad, update, finish, ECB, ECDSA, scalar multiplication |
| DRBGs and entropy | `ctr_drbg.c`, `hmac_drbg.c`, `entropy.c` | reseed counter, prediction flags, entropy pool and thresholds | seed, reseed, random, update, gather |
| Message buffer allocator | `memory_buffer_alloc.c` | doubly linked list of blocks and of free blocks | calloc, free, verify |
| MPS reader | `mps_reader.c` | fragment and accumulator cursors | feed, get, commit, reclaim |
| Arithmetic and primitives | `bignum*.c`, `ecp*.c`, `rsa.c`, `aes.c`, `sha*.c`, ... | none across calls, or a running state | pure algorithms |
| Encodings | `asn1*.c`, `x509*.c`, `pem.c`, `base64.c`, `pk*.c`, `oid.c` | none | parse, write, verify a chain |
| Platform | `platform*.c`, `threading.c`, `net_sockets.c`, `timing.c` | function pointers, sockets | wrappers |

### 1.2 How the parts interact

* The **application** calls `mbedtls_ssl_handshake/read/write` and the PSA API.
  It may stop after any call, repeat a call that returned `WANT_READ` or
  `WANT_WRITE`, or, with `MBEDTLS_THREADING_C`, call PSA from several threads.
* The **handshake** appends messages to a flight and asks for the next message.
  The flight is sent, and sent again, by `mbedtls_ssl_flight_transmit` through
  `mbedtls_ssl_write_record` and `mbedtls_ssl_flush_output`; what comes back
  goes through the record checks (epoch, replay, MAC), then through the
  reassembly buffer, then to the handshake. Three pieces of state are shared by
  these layers: the epoch (and with it the transforms), the flight number
  boundaries (`recv_flight_completed` clears the flight and the reassembly
  buffer), and the timer.
* **PSA operations** lock a slot of the key store, copy or use the key, and
  unlock it; AEAD operations copy the key into a driver context. The driver
  wrappers dispatch to the built-in implementation, which on the Duet boards
  calls the **GCM driver**; its contexts, the one-shot calls of the TLS record
  layer and the ECB calls of the random generator share one AES peripheral.
* The **key store** shares its slots with all threads under one mutex, and its
  persistent keys with the key files, which survive a crash.

### 1.3 What is hard here, and what makes each part correct

| part | hard behaviour | what correctness means |
|---|---|---|
| key store | threads interleave between critical sections; a key is destroyed while it is read; creation fails half-way; the cache is full; power is lost | the reader counter is the number of readers, nobody fills a slot with another, a key is in one slot, the cache agrees with storage, deletions complete, callers see a map from identifiers to keys |
| DTLS record layer | datagrams are lost, repeated, reordered, forged; epochs change; a context is saved and restored | no record is accepted twice, none is refused that is fresh and in the window, the window is the exact memory of what was accepted |
| DTLS retransmission | the transport blocks in the middle of a flight; timers; MTU changes; two epochs are swapped back and forth | no record number is reused, each message goes out in its epoch, a flight reaches the transport whole, a transmission ends |
| DTLS reassembly | fragments overlap, repeat, disagree; memory is bounded; allocation fails | messages reach the handshake once, in order and complete; the byte account is exact; what is early never blocks what is needed |
| GCM driver, AEAD operations | several users of one engine; errors at any call; pointers kept across calls | the engine belongs to the running stream, a stream is computed from its own inputs, nothing stays behind, declared lengths hold |
| TLS 1.3 handshake | the transport blocks at any record; keys change while records are in flight; HelloRetryRequest and rejected early data; two choices of PSK | both sides agree on mode, PSK, keys and transcript, nobody is accepted unauthenticated, early data is read as it was written or not at all, a handshake fails for a reason in the configurations only, and it ends |
| session tickets | keys, tickets and lifetimes age; a rotation fails half-way; the clock goes back | a live ticket is accepted, an expired one is not, tickets can be written again after any failure |
| session cache, allocator | allocation fails after an entry was picked; blocks split and merge | nothing leaks, the newest session is served, only the oldest makes room; the block lists are exact |
| secure elements | storage, element and power fail between the steps of a transaction | the transaction record names whatever is half done; a key that was created stays |
| TLS 1.2 handshake, DRBG, MPS reader, dynamic key store | order of states, reseeding, accumulators, free lists | see Not modelled |

`PROJECT.json` lists the hazards one by one, each at its line, with the
properties that would show it going wrong.

## 2. Plan

Order of the modules (done ones are marked):

1. [done, proved] `PsaKeyStore`, its abstract specification `PsaKeyApi`, and
   that the one implements the other.
2. [done, proved] `DtlsRecord`.
3. [done, proved] `DtlsFlight`.
4. [done, proved] `DtlsBitmask`, `DtlsReassembly`.
5. [done, proved] `GcmDriver`, and `PsaAead` which composes PSA operations with it.
6. [done, proved] `MemoryBufferAlloc`, and `SslCache` which runs on it.
7. [done, proved] `SslTicket`.
8. [done, proved] `PsaSeTransaction`.
9. [done, proved] `Tls13Handshake`: client and server together.
10. `DtlsLink`: two endpoints of `DtlsFlight` and `DtlsReassembly` joined by a
    network that loses and repeats datagrams; `PsaKeySlices` (dynamic store);
    `MpsReader`; reseeding of the DRBGs; the TLS 1.2 state machines.

Every safety property of a passing run has a proof; `NothingLeaks` has one with a
hypothesis (see 6.10). Liveness does not (6.11).

## 3. The modules

### 3.1 PsaKeyStore, PsaKeyApi

`PsaKeyStore` is the static key store with any number of threads. A slot is a
record (`state`, `readers`, `id`, `lifetime`, `key`) like `psa_key_slot_t`;
`storage` is the set of key files; `pc`, `rslot`, `wslot` and `req` are what a
thread remembers between critical sections. Each section under
`mbedtls_threading_key_slot_mutex` is one action (`GetAndLock`,
`StartKeyCreation`, `FinishKeyCreation`, `FailKeyCreation`, `DestroyKey`,
`EndUse`, `ForgetIfUnused` for close and purge); what a thread does to its
reserved slot outside the mutex (`SetAttributes`, `FillMaterial`) is an action
of its own. `CryptoFree`, `CryptoInit` and `Crash` model the life of the
library. Writing or removing a key file may fail, and may fail after the file
has changed. A volatile key has the identifier of its slot. Key material is a
number that is never used twice, so that a mix-up of keys is visible.

`PsaKeyApi` is what a caller sees: a map from identifiers to keys and, per
thread, the key it works with. `ImplementsApi` checks that the store, its
cache and its files implement it, with the refinement mapping at the end of
`PsaKeyStore`.

### 3.2 DtlsRecord

Reception of DTLS records by one endpoint. `in_epoch`, `in_window_top`,
`in_window` (as the set of bits), the bad-MAC counter, the message being
processed, the buffered record of the next epoch, the phase of the handshake
and a saved context are the state; `seen` counts how often each record was
handed up. The network is any record at any time. `AcceptRecord`, `BadMac`
and `BufferFutureRecord` are the outcomes of `mbedtls_ssl_read_record`;
`ParseChangeCipherSpec`, `ParseFinished`, `FreeHandshake`,
`StartRenegotiation`, `SessionReset`, `ClientReconnect`, `ContextSave` and
`ContextLoad` are the calls that move the epoch or the window. A saved context
is loaded at most once: loading it twice makes two receivers of one
association, which no code here could notice. How records are packed into
datagrams is left out.

### 3.3 DtlsFlight

Sending: `flight` with its cursor `cur_msg`, `cur_msg_p`; `epochs` (current and
alternative transform and counter); the output buffer; the retransmission
state, timeout and timer; the two MTUs. One pass of the loop of
`mbedtls_ssl_flight_transmit` is an action (`TransmitMakesRoom`,
`TransmitFragment`, `TransmitEnds`), and the transport may refuse in each;
`Resume` is the next call of the application. `RecvFlightCompleted`,
`TimerExpires`, `PeerRetransmits`, `HandshakeWrapup` and `FreeHandshake` are the
events. Lengths are in units of a few bytes and record expansion is exact
(no CBC padding). `conf` is one of four endpoints: client and server, of a full
and of an abbreviated handshake. There is no renegotiation. The application
repeats a call that returned `WANT_WRITE` before it makes another one.
Assumption on the constants: Finished is the last message of the last flight
and of no other (`FinishedIsLast`: each handshake calls
`mbedtls_ssl_write_finished` once). `Mtus` may be any lengths, as
`mbedtls_ssl_set_mtu()` takes any. `FragmentsFit` says that each leaves room for
a fragment of one byte in either epoch; it is the stated hypothesis of
`EpochsAreRight`, `TransmissionEnds` and `HandshakeGoesOn`, which do not hold
without it (5), and of nothing else.

### 3.4 DtlsBitmask, DtlsReassembly

`DtlsBitmask` is the bitmask of received bytes (`ssl_bitmask_set`,
`ssl_bitmask_check`), written byte-wise as the code does it.
`DtlsReassembly` is the buffer: slots for the messages after the expected one,
a record of the next epoch, the number of bytes allocated, and the flag of an
early ChangeCipherSpec. The handshake is a script of what it reads next. The
content of a message is the set of offsets that were copied, so that a hole is
visible. `Filled` is what a fragment does to a slot, `HeldBytes` the bytes of a
set of slots. The model starts after the ClientHello.

### 3.5 GcmDriver, PsaAead

`GcmDriver` has the driver's contexts, `gcm_streaming_owner` and the shared
peripheral in one record, `drv`. Each driver function is an operator on it,
with an operator for the condition under which it is not refused (a refused
call changes nothing). Direct callers, one-shot calls and ECB calls are
actions. `asked` records what the user of a context passed since `starts`;
`result` what the step just taken made the hardware compute. The peripheral
and the ECB key cache (CoreN2G) are external and modelled from their use.
Direct callers are taken to leave a buffer alone from `update` to the end of
the stream, because the driver keeps a pointer to it.

`PsaAead` adds multipart AEAD operations (`psa_aead_*`) that run on driver
contexts of their own: order of calls, declared lengths, and the abort after
every error, whose effect is `mbedtls_gcm_free`. Any call may fail (`Fail`):
by its checks, an allocation, the key store, the driver. `psa_aead_update`
gives the driver a local copy that is freed on return; the model lets that
memory hold anything when `finish` reads it. `given` counts what an operation
was passed since its setup, next to the lengths it declared, and `result` keeps
it when the operation ends; `DeclaredLengthsHold` compares the two, while the
code compares neither with a count but subtracts from what remains.

### 3.6 MemoryBufferAlloc, SslCache

`MemoryBufferAlloc` is the allocator: `heap` maps the address of each block to
its header, with the two lists as the code links them (`prev`, `next`,
`prev_free`, `next_free`), and `Calloc` and `Free` are operators on it, down to
the split that leaves a block without room and the product `n * size` that
overflows (`SizeMod`). `SslCache` is the cache on top: the chain of entries, each
with the address of its structure and of its serialised session, and every
function of `ssl_cache.c`; another part of the program allocates and frees in
between. `Builds` are the programs considered, with and without
`MBEDTLS_HAVE_TIME`. A call is a step: the cache has a mutex, and the program is
taken to have one thread otherwise, since the allocator's own mutex only makes
each allocation atomic.

### 3.7 SslTicket

The two ticket keys with their name, material, age and lifetime. A name and
material are random, so a ticket (what a client holds) only says which of the
two keys still has its name and which its material. `UpdateKeys`, `GenKey`,
`TicketWrite`, `TicketParse` and `TicketRotate` are the functions, and drawing a
key fails for the name, for the material, or when the material is to be taken by
the key store or the cipher context (`Outcomes`), in builds with and without PSA
and a clock. Ages replace times: only differences
are compared, and none above `MaxLifetime`, which no lifetime exceeds, is told
apart.

### 3.8 PsaSeTransaction

A key in a secure element is a file, a key in the element and a mark in the
driver's persistent data. Creation, registration and destruction are sequences
of actions, one for each access to storage or the element; each may fail, and
`Crash` may come between any two. `record` is the transaction record in storage
and `psa_crypto_transaction` its copy in memory. `CryptoInit` is what start-up
does with a record it finds: it refuses to go on and, when it is called again,
has given the record up. `PurgeKey` wipes a key from memory, which a key
without a file does not survive; no more does it survive `Crash` (`LoseMemory`).

Four variables are histories, for the properties. `durable` are the keys whose
creation returned success and that were not destroyed since; `unsaved` those of
them that have no key file, because `psa_finish_key_creation` replaced the status
of the failed save (line 1966). `given_up` are the slots for which the code ended
a transaction without completing or undoing it, and `shared` those that two
identifiers named at once (`Contested`). `JournalCoversDamage` excepts the slots
in `given_up`, for ever. `DurableKeysStay` excepts nothing for a key's file and
identifier, other than that an unsaved key is in memory only; that the element
still holds the key it excepts for the slots in `shared`, which is the loss
described in 5.2.

### 3.9 Tls13Handshake

A client and a server, both of this library, over a reliable stream. `c` and `s`
are the two contexts; `out` the record that waits in each output buffer and
`net` what is on its way; `app` what the applications wrote and read as early
data. A handler of the state machine is an action and keeps its name
(`ssl_tls13_process_server_hello` is `ProcessServerHello` and
`ProcessHelloRetryRequest`); it runs only when the output buffer was flushed
(`ssl_prepare_handshake_step`), and leaves at most one record in it, which
`Flush` gives to the transport at any later time. A transcript is the sequence
of messages hashed, a key is what it is derived from (stage, PSK, group,
transcript), and a record can be opened only with the key it was protected with.
So a side that changes a key one message too early, or hashes one message less,
meets a record it cannot open. The conditions of the code decide everything
else: which PSKs are offered and found, which mode and group are chosen, when
early data is offered, accepted, rejected and skipped, in which of the two ways.

Left out: the choice of the ciphersuite (there is one), ALPN, SNI, version
negotiation, cookies, the content of alerts (an endpoint that gives up is seen
by its peer, `PeerIsGone`), and application data after the handshake. Tickets
are those of an earlier connection with the same configuration. An item of
early data has length 1 and `Overhead` is what protection adds. Each item's
write returns `WANT_WRITE` at most once, a bound.

## 4. Runs

| run | question | states |
|---|---|---|
| `key_store` | three threads, two slots, one persistent and one built-in identifier, three key objects, failures and crashes: invariants, `ImplementsApi`, every marked slot is wiped | 165 000 |
| `dtls_replay` | any records, epochs, resets, saved contexts: `NoReplay`, `WindowIsExact`, `FreshIsAccepted` | 1 140 000 |
| `dtls_flight` | the flights of four kinds of endpoint, MTU changes, a blocking transport, timers | 138 000 |
| `dtls_reassembly` | two flights in any order with stray fragments and failing allocations; without those, all is read | 3 643 |
| `gcm_engine` | two PSA operations, a direct caller, one-shot and ECB calls on one peripheral: who owns the engine, what a stream is computed from, declared lengths | 730 000 |
| `session_cache` | three identifiers in a cache of at most two entries, in a buffer of 18 units, with another user | 172 000 |
| `session_tickets` | four builds, lifetimes 0, 1 and 2, a ticket | 79 000 |
| `secure_element` | two keys, two slots, failures and loss of power at every step: what the record in storage names, what stays of a key that was created | 138 000 |
| `tls13_handshake` | 108 configurations of certificates, 1764 of modes, PSKs and groups, 128 of early data | 237 000 |
| `dtls_badmac_length`, `dtls_low_mtu`, `tls13_second_psk` | see Findings | violated |

**Bounds.** Two slots with three threads are the smallest store in which a
cache entry is evicted while one thread fills and another reads. A window of
two bits with three record numbers per epoch has records inside, at the edge
of and beyond the window, and `WindowBits` is a parameter of the proofs, which
hold for 64. Flights have at most three messages, with one that needs several
fragments, and MTUs below, at and above the size of a fragment (`dtls_low_mtu`
adds one below the expansion of a record); counters end at 16, so that the wrap is
reached. The reassembly buffer has room for fewer
messages than may be early, and the bitmask is compared with its definition
for every offset and length up to 20 bits, which crosses two byte boundaries.
Two PSA operations and one direct context are enough for a stream that waits,
one that runs and one that is given up; the associated data of two pieces
fills the array. The allocator's buffer has room for five smallest blocks, so
that a block has free and used neighbours on both sides. One ticket at a time
is enough for properties that speak about single tickets, and lifetimes of two
ticks let a key age in use and in reserve. Three items of early data are a
limit that is reached by what is sent once, by what is sent again and, with the
overhead, by what is skipped. Counters that only bound a run are named as
bounds where they are declared.

**Fairness.** `key_store`: a thread inside a call takes its next step (`WF` of
`Continue`), that is, threads are scheduled and get the mutex. `dtls_flight`: an
application repeats a call that has to be repeated, the transport takes a
datagram when asked often enough, and a running timer expires.
`dtls_reassembly`: the receiver handles what it has, and a peer repeats its
flight until it is answered, so each fragment comes again. `tls13_handshake`:
both applications call again until the handshake is over, then read, and the
transport takes a record in the end. No fairness is assumed of failures, of the
application's choice of calls, of early data, or of new requests.

**Deadlock** is checked in all runs but those of `Tls13Handshake`, whose
connections end; that they end well is `Completes`. Finished DTLS handshakes
stutter explicitly.

**Faults.** Next to the definitions are forms with a plausible mistake
(marked as faults or mutants, or with the property that fails). Nothing uses
them; each property of a passing run is violated when one of them takes the
place of the definition, which shows that the property depends on that code.

## 5. Findings and observations

### 5.1 Findings

* `dtls_badmac_length`: the field `badmac_seen_or_in_hsfraglen` has two
  meanings. On DTLS, once a record with a bad MAC was dropped, the condition
  at `ssl_msg.c:3224` is false and `in_hslen` is not set for the next
  handshake message.
* `dtls_low_mtu`: `ssl.h:2545` says that an MTU lower than the record expansion
  makes sending fail. `mbedtls_ssl_set_mtu` accepts any value, and the loop of
  `mbedtls_ssl_flight_transmit` (`ssl_msg.c:2601-2613`) has no room for a
  fragment, flushes nothing and starts over without end. `LowMtuIsAnError` is
  violated by an MTU of 1 under an expansion of 2: with an empty output buffer a
  pass of the loop changes nothing, whatever the transport does, so the trace ends
  in a state that repeats.
* `tls13_second_psk`: a client that offers early data with its ticket keeps the
  early secret of the ticket although the server, which lost the ticket,
  selected the configured PSK; the comment in
  `ssl_tls13_postprocess_server_hello` says that it is that of the selected
  PSK. The client then cannot decrypt the EncryptedExtensions. In
  `tls13_handshake` this is the exception `SecondPskAfterEarlyData` of
  `OnlyExpectedFailures`.

### 5.2 Observations

Behaviour met while modelling that a property names as its exception, or that
an assumption of a model excludes:

* If the MTU shrinks to a value that leaves no room for a fragment (5.1) while a
  fragmented Finished waits for the transport, there is no room under the new
  epoch but some under the old one. The next pass swaps back to the old epoch before it flushes
  (`ssl_msg.c:2595-2604`), and the swap at the start of a message
  (`ssl_msg.c:2561-2570`) is not done again because `cur_msg_p` is past the
  beginning, so the rest of the Finished goes out under the old epoch. TLC
  shows it with `Mtus = {4, 9}` once `EpochsAreRight` is stated without its
  hypothesis `FragmentsFit`, which its proof needs for this one step.
* With this driver a multipart AES-GCM operation through PSA reports no output:
  the driver's `update` produces none, and `mbedtls_psa_aead_finish` answers
  `*ciphertext_length = 0` for what `finish` produces. `psa_aead_update` frees the
  copy whose address the driver keeps, so that what is encrypted is not defined
  (the exception of `FinishComputesItsStream`), and a second non-empty `update` is
  refused although `gcm.h` allows any number. TLS is not affected: its records use
  the one-shot calls.
* A resend of the last flight that `mbedtls_ssl_read` began is interrupted by
  the transport, and the application writes next. `ssl_write_real` flushes what
  waits but does not finish the flight, whose epoch is in force, so the data goes
  out under it. The applications of the run repeat the interrupted call first.
* Without `MBEDTLS_HAVE_TIME`, as on the boards, a full cache whose bound is one
  entry loses it: `old` and `last` of `ssl_cache_pick_writing_slot` are the same
  entry, which is linked to itself and is in no list. The run's bounds without
  a clock are larger. `mbedtls_ssl_cache_remove` reports success for an outdated
  entry and leaves it.
* A rotation of ticket keys that fails half-way leaves old material active with
  a new generation time (the exception of `LifetimeIsKept`). In builds with PSA,
  after two failures both identifiers are stale, `psa_destroy_key` fails and no
  later rotation gets further (the exception of `TicketsComeBack`).
  `mbedtls_ssl_ticket_rotate` takes no mutex.
* Start-up replaces the status of the recovery it could not do by that of
  `psa_crypto_stop_transaction`, so a second `psa_crypto_init` goes on without
  the record (`psa_crypto.c:8523-8527`); `psa_finish_key_creation` replaces the
  status of `psa_save_persistent_key` by that of the next step (line 1966), so a
  key whose creation returned success may be gone after a restart or
  `psa_purge_key`; `psa_fail_key_creation` leaves the key in the element (a TODO
  of the code). These are what `given_up` and `unsaved` stand for.
* A durable key can lose its place in the element. The file of one key is saved
  and power fails before the driver's data is; start-up drops the record; the
  driver gives the slot, which it believes free, to a second key, whose creation
  returns success; `psa_destroy_key` of the first identifier, found through its
  file, then destroys the second key in the element (line 1374). This is the
  exception `shared` of `DurableKeysStay`.
* `mbedtls_ssl_write_early_data` that returned `WANT_WRITE` and is repeated
  flushes the record in its handshake step and then writes the item again, so
  the server reads it twice (the exception of `EarlyDataExact`), although
  `ssl.h:5337` tells the caller to repeat the call.
* `mbedtls_ssl_tls13_check_early_data_len` limits the early data that a server
  skips by the size in the ticket, counting protected bytes; if no ticket was
  recognised, or none that can be used, the limit is 0, and the first record to
  skip ends the handshake. `OnlyExpectedFailures` states the limit exactly
  (`EarlyDataLimit`): the maximum of the ticket for a ticket the server can use, 0
  otherwise.
* A server that shares no group with the client prefers `psk_ephemeral` to a
  `psk` that would work, and fails ("group").

## 6. Proofs

Each `...Proofs` module EXTENDS the module it is about and is checked by TLAPS.
(`PsaProofs` holds the proofs about two modules that share nothing, `PsaAead` and
`PsaSeTransaction`, and `SslProofs` those about `DtlsRecord` and `SslTicket`, for
which the specification of `DtlsRecord` is called `RecordSpec`;
`Tls13FailureProofs` goes on from `Tls13HandshakeProofs`.)
All theorems hold for every value of the constants that satisfies the
assumptions stated where they are declared. `PROJECT.json` lists the theorems;
each states a property that a run of section 4 checks on a small instance. Each
proof has the same plan: an inductive invariant, which TLC checked on the run of
the module first; lemmas about the operators; one lemma or step for each action;
and the theorems, which follow from the invariant by temporal logic.

### 6.1 PsaKeyStoreProofs

For every number of threads, slots, identifiers and keys, `KeyStoreInv` is
inductive, and from it `TypeOK`, `ReaderCountExact`, `OneSlotPerKey`,
`CacheIsCoherent`, `FillingHasOneCreator` and `NoCorruption`. The properties
alone are not inductive: that a slot's counter is right after a step needs to
know in which states a slot may have readers (`SlotShape`), where a thread with
a slot is in its call (`ThreadShape`), and that two threads never reserved the
same slot (`CreatorUnique`, `FillingOwned`). The actions that acquire, leave or
vacate a slot share three lemmas on the cardinality of the set of readers
(`CountSame`, `CountAdd`, `CountRemove`). Assumptions: finitely many threads,
fewer than `SIZE_MAX`; identifier ranges are disjoint.

`KeyStoreImplementsApi` is the refinement `Spec => ImplementsApi`: the store
starts as an initial state of `PsaKeyApi`, and each critical section is one of
its operations or invisible to callers. It needs one more invariant,
`KeysAreOwn`: key objects are numbered in the order of their creation, and the
key of a volatile slot or of one that is being created is in no other slot and
no file. Without it a reader of an old key could be taken for a reader of the
key that is being closed, and a created key might not be new. `SameView` says
when a step is invisible; each operation has a lemma `...Refines` that names the
abstract operation it is.

### 6.2 SslProofs: DTLS records

For every window width, number range and number of epochs `RecordInv` is
inductive, and from it `NoReplay`, `WindowIsExact` and `FreshIsAccepted`. The
strengthening says that nothing of a later epoch was seen yet, that a saved
context describes what was seen when it is loaded, and which epochs go with
which phase; without the first a change of epoch could start with records
already counted, without the second a load would. The core is `UpdateTracks`:
shifting and setting a bit keeps the window the exact set of accepted numbers
below its top.

### 6.3 DtlsFlightProofs

For every list of flights, MTUs and counters up to `MaxCtr`: record numbers are
used once (`RecordNumbersAreFresh`), the Finished alone goes out under the new
epoch if `FragmentsFit` (`EpochsAreRight`), and a flight reaches the transport whole before the
endpoint reads (`FlightIsSentWhole`). `FlightInv` says which epoch is current at
each position of the flight (the old one, except between flights and inside the
Finished), that the counters stored for either epoch are ahead of every number
used in it, and that each byte behind the position was given to the transport or
is in the output buffer. The first makes the exchanges of
`ssl_swap_epochs()` come out even; the second is what an exchange could break;
the third is what a refused flush could. Only what `FlightInv` says of the current epoch at a position has the
hypothesis `FragmentsFit`; record numbers and whole flights do not need it.
Assumptions: `FinishedIsLast`, and that every record costs something
(`Expansion > 0`).

### 6.4 DtlsReassemblyProofs

For every script of messages, every set of fragments and every size of the
buffer: `DeliveredInOrder`, `BudgetIsExact`, `BitmaskIsExact`,
`FutureNeverStarvesNext` and `FlightLeavesNothing`. Three groups of lemmas carry
the proof. `ssl_bitmask_set` and `ssl_bitmask_check` are exact for every offset
and length (partial first byte, whole bytes, partial last byte). The sum of a
field over a set of slots, which the model computes with `MapThenSumSet`,
changes by the difference when one slot changes; the induction theorems of the
library are out of reach, so this rests on the well-foundedness of the subsets of
a finite set (`MinimalSet`). And each operation of the buffer keeps
`BufferIsRight`: the account is exact, and a slot that is marked complete has
every byte. `DeliveredInOrder` then needs `CountIsRight`, that the number of
messages delivered is `in_msg_seq` for as long as nothing failed.

### 6.5 PsaProofs: AEAD operations and the GCM engine

For any number of contexts, operations, keys and pieces of data:
`OwnerIsStreaming`, `FinishComputesItsStream`, `EcbUsesItsKey` and
`DeclaredLengthsHold`. `AeadInv`
adds that a context holds what its user passed since `starts` (`StreamIsHeld`)
and who may have a stream (`StreamHasUser`: a direct caller with a live context,
an operation after its nonce). What the engine computes at `finish` is a
statement about one step, so it is not inductive by itself: it follows from what
the context holds before the step. The input of a PSA operation is excepted, as
in the run: the driver reads a buffer that was freed. For the lengths,
`LengthsInv` adds that what an operation was passed and what remains add up to
what it declared (`Accounted`), whether the lengths came before or after the nonce,
so that `finish` with nothing remaining means that the declared amounts were
passed.

### 6.6 SslProofs: session tickets

For any lifetimes up to `MaxLifetime`, any number of tickets and both pairs of
builds: `LiveTicketsResume`, `LifetimeIsKept`, `TicketsComeBack`. `TicketInv`
compares ages: a ticket of the active key is as old as the key or younger, and a
ticket of the other key was sealed before the active key was drawn, so it is
older than the active key is; when the active key's lifetime is over, what the
next rotation loses is over as well. The two other conjuncts are that a key whose
name and material belong together has the lifetime its tickets announced, and
that only a key that expires can become stale.

### 6.7 PsaProofs: secure elements

For any number of identifiers and slots of the element: `JournalCoversDamage`,
`DurableKeysStay`. `SeInv` says that outside of the slot of the call in progress
the key file, the element and the driver's marks agree and are saved
(`OthersAreSettled`), that from the first write on the record names that slot
(`RecordIsOwn`), and what a creation and a destruction have done at each of
their steps (`CreationIsClean`, `DestructionIsClean`). A crash then leaves one
slot in doubt, the one in the record. For `DurableKeysStay` it adds that each
durable key outside of `shared` has a slot that the call in progress does not
name and that is marked in the driver's memory (`DurableIsApart`), so that
neither that call nor the next allocation reaches it.

### 6.8 Tls13HandshakeProofs

For every set of configurations and bound: `Agreement`, `Authentication` and
`EarlyDataExact`. `TlsInv` has three parts. `ClientSide` and `ServerSide` say what each endpoint knows in each of its
states, whatever the other does: which message its handshake keys were derived
from, where it learned whether early data is accepted, whose certificate it saw,
which secret its tickets come from. `Joint` ties them together: what each
certificate and each Finished on its way stands for (`RecordsAreRight`), what
equality of keys follows once a Finished was verified (`PeersAgree`), and that
the server's Finished is the last record of its flight and tickets follow in
order (`QueueIsOrdered`). `Agreement` is not inductive alone, since it speaks
about endpoints that are done only: it is the record in flight that carries the
transcript from one to the other. Steps are grouped by what they leave alone
(`ClientKeeps`, `ServerKeeps`), and `JointKept` says once how a side's step keeps
`Joint`. TLC evaluated `TlsInv` on all 237 021 states of the run.

`EarlyDataExact` rests on a second invariant, `EarlyInv`, inductive relative to
the first. The items the server's application read, followed by those on their
way, are the written ones in order (`ItemsAreOrdered`, `ItemsAreWritten`), and
none is lost as long as the server has not rejected early data (`ItemsAreKept`).
That the last item is read before the server goes on needs three more facts: the
end of early data is written once and no item is written after it (`EndIsLast`); the
server accepts early data with the first ClientHello only, so that it never
skipped an item before (`AcceptanceIsRight`); and once it has passed the end,
everything was read (`AcceptedIsRead`). TLC evaluated `EarlyInv` on the same
states.

### 6.9 Tls13FailureProofs

For every set of configurations and bound: `OnlyExpectedFailures`, that is, no
endpoint meets a record it cannot open, a message it does not wait for, a
signature or a Finished that is wrong, although keys change on both sides while
records are on their way. `FlowInv` is inductive relative to the two invariants
above. Its parts:

* `Streams`: the handshake records on their way to an endpoint are the messages
  of its peer's transcript that it has not hashed yet, in order, and a signed
  message or a Finished stands for exactly the messages before it. A stream is
  stated with a function that counts the messages up to each record, so that
  padding, tickets and early data between them do not matter. The server replaces
  the first ClientHello by its hash earlier than the client does; `Heard` is the
  client's transcript as the server has it. `TranscriptsAgree` then says that
  both agree as far as both go.
* `Places` and `MessagesAreRight`: how much an endpoint has hashed in each state, and
  which message the configurations and the parameters agreed on call for at each
  place.
* `Turns`: who has hashed less is about to read, so that the two never get ahead
  of each other. `ServerParameters`, `ClientParameters`: what each side has
  negotiated follows from the messages.
* `ServerKeys`, `ClientKeys`, `RecordsHaveKeys`: which key each side reads and
  writes with in each state, and that each record on its way is under the key
  the reader will hold when it comes to it.
* `EarlyComesFirst`, `EarlyIsAwaited`, `EarlyIsCounted`: early data is between the
  first ClientHello and the next message of the client; for as long as some may
  come the server skips it, reads it or still has the ClientHello to read; and it
  is within the limit unless an item was written twice.
* `LimitInv`, a second invariant, is the account of early data. The items on
  their way to the server can be numbered upwards, from the number of items
  counted so far to the number sent (`ItemsAreCounted`), and what the server has
  counted is that number times the cost of an item; the padding of a client, which
  is skipped with the items, is never counted. When the count passes the limit,
  the cost of all that was sent is above `EarlyDataLimit` (`LimitIsReached`), and
  the limit the server works with is that one (`LimitIsSet`). The lemmas about
  the numbering of a queue are in `Tls13HandshakeProofs`, with those on streams.

One lemma `...Does` for each action says what it does in these terms: whether it
says a message, hears one, pads or is silent, which fields it changes, and how it
may fail. Lemmas on streams (what is appended to a stream, what is taken from
it; in `Tls13HandshakeProofs`) and on keys then serve all actions alike. The proof needs one assumption on
the configurations, `GroupsAreListed`: a client that enables an ephemeral mode has
a group (`ssl_tls13_get_default_group_id()` fails otherwise, and the model has no
client without one). Two exceptions of the property appear where the proof needs
them: a server that selects the second PSK after early data leaves the client with
another key (5.1), and items of early data that are written twice may exceed the
server's limit (5.2); the property counts them. TLC evaluated `FlowInv` on part of the states of the run
only (within the time given it; the function in `Streams` makes it slow), which
was enough to correct it before the proof.

### 6.10 SslCacheProofs

For any identifiers, sessions, limits, timeouts, length of the buffer, of a
header and of the requests, and any alignment: `HeapIsExact`, `ServesLatest`,
`EvictsOldestOnly`, `NothingLeaks` and `TypeOK`. From below:

* Following links. The walk along a list is a function of the number of steps,
  and `MaxBlocks` steps are enough. A list that has an order in which every link
  goes up, and whose members are linked both ways, is walked to its end and
  passes every member once (`Ranks`, `IsList`, `ListIsWalked`); conversely,
  removing, prepending and replacing a member keep `IsList`. No induction over
  lists is needed: the facts about a walk take the least number of steps that
  would break them. Sums of sizes rest on the minimal member of a family of
  finite sets, as in 6.4.
* The allocator. `HeapInv` says that the blocks tile the buffer, that the list of
  all blocks and the list of the free ones are exact, that no two free blocks
  touch, and that `total_used` and `header_count` count. `Calloc` keeps it,
  whether it splits or takes the whole block, and returns room that nobody had;
  `Free` keeps it in each of its four cases (a free neighbour before, after, on
  both sides or none), and gives back what was asked for and no more. Between the
  two merges the free list is for a moment not the set of free blocks: `HeapStage`
  says which block is missing, and `Fused` what one merge does.
* Owners. `Memory` ties the heap to its owners: each used block is an entry of
  the chain, the session of an entry or a block of the other user, each of them
  once, and long enough. Each step of `mbedtls_ssl_cache_set()` keeps `Held`,
  those that fail half-way included. `NothingLeaks` is then a consequence.
* The chain. `CacheInv`: no two entries have an identifier in common, and the
  session of an entry is the last one that was set for it. `ServesLatest` and
  `EvictsOldestOnly` follow.

TLC evaluated `OwnersInv`, of which all these are parts, on the 172 169 states of
the run, with ranks bounded by the number of free blocks.

The assumptions are those of the two modules (`SizesFit` and `CacheConstants`).
`NothingIsLost` has one hypothesis more, `KeepsTwo`: a build without a clock has
no limit below two. With a limit of one the code really loses its entry (5.2),
and `session_cache` has no such build either. A buffer too short for a block is
never used by `mbedtls_memory_buffer_alloc_init()`; `HeapIsExact` says so.

`EvictsOldestOnly` was first stated about sessions that a lookup no longer
returns. The proof did not go through: two sessions may pass their timeout in the
same second, which is no eviction. It is now stated about entries that leave the
chain. TLC had not seen it because the limits of the run keep the chain short.

### 6.11 What is only model-checked

* Liveness, which needs ENABLED: the deletions of the key store, the
  end of transmissions and handshakes of `DtlsFlight`, `AllIsRead` of
  `DtlsReassembly`, `Completes` of `Tls13Handshake`.
* Nothing else: `NothingLeaks` in a build without a clock whose limit is one does
  not hold (5.2), and no run checks it.

## 7. Not modelled

The table of components in `PROJECT.json` gives the reason for each part.

* Most of the library's lines are arithmetic, primitives, encodings and
  certificates: pure functions over large inputs, whose correctness is not a
  question of the order of events and whose meaningful sizes a model checker
  does not reach. Programs, tests and generated tables are not part of the
  library's behaviour.
* Platform wrappers have no state.
* TLS 1.2 state machines, renegotiation, DTLS cookies, the dynamic key store,
  the MPS reader (built, but called by no other file of the library) and the reseeding of
  the generators keep state and could be modelled; they come after the parts
  the boards' configurations enable.
* Within modelled parts: partial reads and writes of a stream, fragments of TLS
  handshake messages, threads inside the session cache's callers, and the
  crash behaviour of `psa_its_file.c`.
