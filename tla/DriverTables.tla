---------------------------- MODULE DriverTables ----------------------------
(***************************************************************************)
(* The drivers of the repository as programs of DriverModel: what their    *)
(* init (or probe) acquires step by step, what each error path and exit    *)
(* (or remove) releases in which order, and which handlers the kernel can  *)
(* call in between.  A resource is named for the variable that holds it or *)
(* for what the call registers.                                            *)
(***************************************************************************)
EXTENDS DriverModel

-----------------------------------------------------------------------------
(* Chapter 11: memory, and a walk over the memory of a task.               *)

kmalloc == Module(<<Get("ptr", {}, <<>>)>>, <<Put({"ptr"})>>, NoHandlers)

vmalloc == Module(<<Get("ptr", {}, <<>>)>>, <<Put({"ptr"})>>, NoHandlers)

(* task->mm is NULL for a kernel thread, and is not tested.  No reference  *)
(* is taken on it, nor on the task: when the task exits, its areas go      *)
(* under the walk, and so does what is printed after it, unnoticed.  None  *)
(* of it is the module's own, and nothing is kept.                         *)
vma_list ==
  Module(<<Try("mm", {}), Touch({"mm"}), Try("areas", {}), Touch({"areas"}),
           Try("segments", {}), Touch({"segments"})>>,
         <<>>, NoHandlers)

-----------------------------------------------------------------------------
(* Chapter 3: work that is put off, and exit.                              *)

hr_timer ==
  Module(<<Do("timer", {})>>, <<Put({"timer"})>>,
         [callback |-> Once(Synced(Handler("timer", <<Touch({})>>)))])

(* del_timer does not wait for a callback that runs on another processor.  *)
std_timer ==
  Module(<<Do("timer", {})>>, <<Put({"timer"})>>,
         [callback |-> Once(Handler("timer", <<Touch({})>>))])

(* tasklet_kill waits until what is scheduled has run.                     *)
tasklet ==
  Module(<<Do("tasklet", {})>>, <<Flush({"tasklet"}, {})>>,
         [tasklet_function |-> Once(Synced(Handler("tasklet", <<Touch({})>>)))])

(* Exit leaves the work scheduled.                                         *)
user_invoke ==
  Module(<<Do("work", {})>>, <<>>,
         [delayed_shutdown |-> Once(Handler("work", <<Touch({})>>))])

(* The work frees its own data; exit flushes the queue before it goes.     *)
dedicated_workqueue ==
  Module(<<Try("wq", {}), Try("my_data", {}), Touch({"my_data"}),
           Do("work", {"wq", "my_data"})>>,
         <<Flush({"work"}, {"wq"}), Put({"wq"})>>,
         [work_handler |-> Once(Synced(Handler("work",
            <<Touch({"my_data"}), Put({"my_data"})>>)))])

(* Mutant: the condition is not set before the wake-up.                    *)
waitqueue_unset ==
  Module(<<Do("work", {}), Wait({})>>, <<>>,
         [work_handler |-> Once(Handler("work",
            <<Touch({}), Wake(FALSE, {}), Touch({})>>))])

(* Init sleeps until the work has set the condition; exit leaves the work  *)
(* alone, which a signal may have made init not wait for.                  *)
waitqueue ==
  Module(<<Do("work", {}), Wait({})>>, <<>>,
         [work_handler |-> Once(Handler("work",
            <<Touch({}), Wake(TRUE, {}), Touch({})>>))])

(* The same with a condition nobody sets, on a wait queue the work frees.  *)
shared_workqueue ==
  Module(<<Try("my_data", {}), Touch({"my_data"}), Do("work", {"my_data"}),
           Wait({"my_data"})>>,
         <<>>,
         [work_handler |-> Once(Handler("work",
            <<Touch({"my_data"}), Wake(FALSE, {"my_data"}), Put({"my_data"})>>))])

-----------------------------------------------------------------------------
(* Chapters 4, 5, 7 and 12: character devices.                             *)

(* An open file: its operations run until it is released.                  *)
File(entry, uses) == Handler(entry, <<Touch(uses), Touch(uses)>>)

(* The number, class and device; cdev_add is not tested, and not undone    *)
(* when device_create fails.                                               *)
CharInit ==
  <<Get("region", {}, <<>>),
    Get("class", {}, <<Put({"region"})>>),
    Try("cdev", {"region"}),
    Get("device", {"class"}, <<Put({"class"}), Put({"region"})>>)>>

CharExit ==
  <<Put({"region"}), PutUsing({"device"}, {"class"}), Put({"cdev"}), Put({"class"})>>

dummy_char == Module(CharInit, CharExit, [file |-> Pinning(File("cdev", {}))])

platform_dummy_char ==
  Device(CharInit, CharExit, <<>>, [file |-> Pinning(File("cdev", {}))])

(* The failure of the first transfer is logged.  When class_create fails,  *)
(* eep_class holds the error, which the error path takes for a class.  No  *)
(* error path gives the numbers back.  remove frees the structure that     *)
(* holds the cdev without cdev_del.                                        *)
ee24lc512 ==
  LET undo(rs) == <<Touch({"eep_class"}), Put({"eep_class"})>> \o rs
  IN  Device(
        <<Check(<<>>),
          Get("region", {}, <<>>),
          Get("eep_class", {}, undo(<<>>)),
          Get("eep_device", {}, undo(<<>>)),
          Get("cdev", {"eep_device", "region"}, undo(<<Put({"eep_device"})>>)),
          Get("device", {"eep_class"},
              <<PutUsing({"cdev"}, {"eep_device"})>> \o undo(<<Put({"eep_device"})>>))>>,
        <<PutUsing({"device"}, {"eep_class"}), Touch({"eep_device"}),
          Put({"eep_device"}), Put({"eep_class"}), Put({"region"})>>,
        <<>>,
        [file |-> Pinning(File("cdev", {"eep_device"}))])

(* Mutant: one error path forgets the major number.                        *)
sdma_forgetful ==
  Module(<<Get("major", {}, <<>>),
           Get("dma_tm_class", {}, <<>>),
           Get("device", {"dma_tm_class"},
               <<Put({"dma_tm_class"}), Put({"major"})>>)>>,
         <<Put({"major"}), PutUsing({"device"}, {"dma_tm_class"}),
           Put({"dma_tm_class"})>>,
         [file |-> File("major", {})])

(* dma_fops has no owner: an open file does not pin the module.            *)
sdma_scatter_gather ==
  Module(<<Get("major", {}, <<>>),
           Get("dma_tm_class", {}, <<Put({"major"})>>),
           Get("device", {"dma_tm_class"},
               <<Put({"dma_tm_class"}), Put({"major"})>>)>>,
         <<Put({"major"}), PutUsing({"device"}, {"dma_tm_class"}),
           Put({"dma_tm_class"})>>,
         [file |-> File("major", {})])

sdma_single ==
  Module(<<Get("major", {}, <<>>),
           Get("dma_tm_class", {}, <<Put({"major"})>>),
           Get("device", {"dma_tm_class"},
               <<Put({"dma_tm_class"}), Put({"major"})>>)>>,
         <<Put({"major"}), PutUsing({"device"}, {"dma_tm_class"}),
           Put({"dma_tm_class"})>>,
         [file |-> File("major", {})])

-----------------------------------------------------------------------------
(* The modules that only add a platform device.  platform_device_add may   *)
(* fail and platform_device_put drops one reference of two, so that what   *)
(* has been registered stays so.                                           *)
PlatformDevice ==
  Module(<<Try("pdev", {}), Needing(Try("registered", {}), {"pdev"})>>,
         <<Put({"pdev"})>>, NoHandlers)

platform_dummy_ins == PlatformDevice
iio_ins == PlatformDevice
fake_gpio_ins == PlatformDevice
polled_ins == PlatformDevice
rtc_ins == PlatformDevice
pwm_ins == PlatformDevice
reg_ins == PlatformDevice
eth_ins == PlatformDevice

-----------------------------------------------------------------------------
(* Mutant: exit frees mykobj before its attribute is gone.                 *)
sysfs_poll_hasty ==
  Module(<<Get("mykobj", {}, <<>>), Try("hello", {"mykobj"})>>,
         <<Put({"mykobj"}), Put({"hello"})>>,
         [attribute |-> Synced(Handler("hello", <<Touch({"mykobj"})>>))])

(* Chapter 13: kobject_add may fail, which init does not report.  The type *)
(* has no release function, so that kobject_put does not free mykobj: exit *)
(* does, if it was added.                                                  *)
sysfs_poll ==
  Module(<<Get("mykobj", {}, <<>>), Try("hello", {"mykobj"})>>,
         <<PutIf({"hello"}, {"hello", "mykobj"})>>,
         [attribute |-> Synced(Handler("hello", <<Touch({"mykobj"})>>))])

-----------------------------------------------------------------------------
(* Chapter 14: an interrupt that copies a button to two lights.            *)

(* It reads and sets GPIOs, so that these must not be given up under it.   *)
Btn1Pushed ==
  Synced(Handler("irq", <<Touch({"btn2"}), Touch({"red"}), Touch({"green"})>>))

(* Nothing is tested.  An integer GPIO can be used without a successful    *)
(* request, and gpio_free gives it up, but it is then another driver's: to *)
(* use it is a fault here.  Its direction is set before the interrupt is   *)
(* asked for.                                                              *)
Lines ==
  <<Try("green", {}), Try("red", {}), Try("btn1", {}), Try("btn2", {}),
    Touch({"btn1"}), Touch({"btn2"}), Touch({"red"}), Touch({"green"})>>
Interrupt == <<Try("irq_line", {}), Needing(Try("irq", {}), {"irq_line"})>>
FreeLines ==
  <<PutOwn({"red"}), PutOwn({"green"}), PutOwn({"btn1"}), PutOwn({"btn2"})>>

(* Mutants: the interrupt is requested before the line is known; the lines *)
(* are given up before the interrupt is.                                   *)
gpio_hasty ==
  Device(<<Check(<<>>)>> \o Lines \o <<Interrupt[2], Interrupt[1]>>,
         <<Put({"irq"})>> \o FreeLines, <<>>, [btn1_pushed |-> Btn1Pushed])
gpio_freed_first ==
  Device(<<Check(<<>>)>> \o Lines \o Interrupt,
         FreeLines \o <<Put({"irq"})>>, <<>>, [btn1_pushed |-> Btn1Pushed])

gpio_legacy_dt ==
  Device(<<Check(<<>>)>> \o Lines \o Interrupt,
         <<Put({"irq"})>> \o FreeLines, <<>>, [btn1_pushed |-> Btn1Pushed])

gpio_legacy ==
  Module(Lines \o Interrupt, <<Put({"irq"})>> \o FreeLines,
         [btn1_pushed |-> Btn1Pushed])

(* The same with descriptors, which are error pointers when refused.       *)
gpio_descriptor ==
  Device(<<Try("red", {}), Try("green", {}), Try("btn1", {}), Try("btn2", {}),
           Try("irq_line", {"btn1"}), Needing(Try("irq", {}), {"irq_line"})>>,
         <<Put({"irq"}), PutUsing({"red"}, {"red"}), PutUsing({"green"}, {"green"}),
           PutUsing({"btn1"}, {"btn1"}), PutUsing({"btn2"}, {"btn2"})>>,
         <<>>, [btn1_pushed |-> Btn1Pushed])

-----------------------------------------------------------------------------
(* Chapter 17: buttons as input devices.                                   *)

(* The interrupt line is asked of priv->btn_gpiod before that is assigned. *)
(* When gpiod_get fails, i_dev is kept; when the input device cannot be    *)
(* registered, the GPIO is; when the interrupt is refused, the registered  *)
(* device is only freed.  input_unregister_device gives up the memory of   *)
(* the device, which remove then frees again, before the interrupt.        *)
input_button ==
  Device(<<Get("priv", {}, <<>>),
           Get("i_dev", {}, <<>>),
           Get("gpiod", {}, <<>>),
           Needing(Try("irq_line", {}), {"btn_gpiod"}),
           Do("btn_gpiod", {}),
           Get("input", {"i_dev"}, <<Put({"i_dev"})>>),
           Needing(Get("irq", {}, <<Put({"gpiod"}), Put({"i_dev"})>>), {"irq_line"})>>,
         <<Put({"input", "i_dev"}), Put({"i_dev"}), Put({"irq"}), Put({"gpiod"})>>,
         <<Put({"priv"})>>,
         [btn_interrupt |-> Synced(Handler("irq",
            <<Touch({"priv", "i_dev", "gpiod"})>>)),
          btn_open |-> Pinning(Handler("input", <<Touch({})>>))])

(* gpiod_get is not tested: the poll function uses what it returned.  The  *)
(* GPIO is kept when the device cannot be registered.  (devm_kfree frees   *)
(* priv before devres would.)                                              *)
input_polled_button ==
  Device(<<Get("priv", {}, <<>>),
           Get("poll_dev", {}, <<>>),
           Try("gpiod", {}),
           Get("polled", {"poll_dev", "priv"}, <<Put({"poll_dev"})>>)>>,
         <<PutUsing({"polled"}, {"poll_dev"}), Put({"poll_dev"}),
           PutUsing({"gpiod"}, {"gpiod"})>>,
         <<Put({"priv"})>>,
         [poll |-> Synced(Handler("polled", <<Touch({"priv", "gpiod"})>>))])

-----------------------------------------------------------------------------
(* Chapters 10, 15, 18, 19, 20 and 22: fake devices.                       *)

(* The registration is not tested, and remove takes it for granted.        *)
iio_dummy_random ==
  Device(<<Get("indio_dev", {}, <<>>), Try("iio_device", {"indio_dev"})>>,
         <<PutOwn({"iio_device"})>>, <<Put({"indio_dev"})>>,
         [raw |-> Synced(Handler("iio_device", <<Touch({"indio_dev"})>>))])

(* A consumer holds GPIOs of the chip, whose descriptors gpiochip_remove   *)
(* frees all the same.                                                     *)
fake_gpio_chip ==
  Device(<<Get("chip", {}, <<>>)>>, <<Put({"chip"})>>, <<>>,
         [consumer |-> Pinning(File("chip", {"chip"}))])

mcp23016 ==
  Device(<<Check(<<>>), Get("mcp", {}, <<>>), Get("chip", {"mcp"}, <<>>)>>,
         <<Put({"chip"})>>, <<Put({"mcp"})>>,
         [consumer |-> Pinning(File("chip", {"chip", "mcp"}))])

fake_rtc ==
  Device(<<Get("rtc", {}, <<>>)>>, <<Put({"rtc"})>>, <<>>,
         [read_time |-> Synced(Handler("rtc", <<Touch({"rtc"})>>))])

(* pwmchip_remove refuses while a PWM is requested; the driver core goes on*)
(* with the removal, and frees priv.                                       *)
fake_pwm ==
  Device(<<Get("priv", {}, <<>>), Get("chip", {"priv"}, <<>>)>>,
         <<PutIfIdle({"chip"})>>, <<Put({"priv"})>>,
         [consumer |-> Pinning(File("chip", {"priv"}))])

(* IS_ERR looks at the array, never at its elements, and the driver keeps  *)
(* the address of that array, which is in the frame of probe.              *)
dummy_regulator ==
  Device(<<Do("frame", {}), Try("core", {"frame"}), Try("fixed", {"frame"}),
           Put({"frame"})>>,
         <<PutUsing({"core"}, {"frame"}), PutUsing({"fixed"}, {"frame"})>>,
         <<>>, NoHandlers)

(* alloc_etherdev is not tested, and the device not freed when it cannot be*)
(* registered.                                                             *)
fake_eth ==
  Device(<<Get("priv", {}, <<>>), Try("dummy_ndev", {}), Touch({"dummy_ndev"}),
           Get("netdev", {"dummy_ndev"}, <<>>)>>,
         <<PutUsing({"netdev"}, {"dummy_ndev"}), Put({"dummy_ndev"})>>,
         <<Put({"priv"})>>,
         [fake_eth_xmit |-> Synced(Handler("netdev", <<Touch({"dummy_ndev"})>>))])

-----------------------------------------------------------------------------
(* Numbers, pointers and frames: values, with nothing to give back.        *)
ValueNames == {"mm", "areas", "segments", "irq_line", "btn_gpiod", "frame"}

AllPrograms ==
  [kmalloc |-> kmalloc, vmalloc |-> vmalloc, vma_list |-> vma_list,
   hr_timer |-> hr_timer, std_timer |-> std_timer, tasklet |-> tasklet,
   user_invoke |-> user_invoke, dedicated_workqueue |-> dedicated_workqueue,
   waitqueue |-> waitqueue, shared_workqueue |-> shared_workqueue,
   dummy_char |-> dummy_char, platform_dummy_char |-> platform_dummy_char,
   ee24lc512 |-> ee24lc512, sdma_scatter_gather |-> sdma_scatter_gather,
   sdma_single |-> sdma_single,
   platform_dummy_ins |-> platform_dummy_ins, iio_ins |-> iio_ins,
   fake_gpio_ins |-> fake_gpio_ins, polled_ins |-> polled_ins,
   rtc_ins |-> rtc_ins, pwm_ins |-> pwm_ins, reg_ins |-> reg_ins,
   eth_ins |-> eth_ins,
   sysfs_poll |-> sysfs_poll,
   gpio_legacy_dt |-> gpio_legacy_dt, gpio_legacy |-> gpio_legacy,
   gpio_descriptor |-> gpio_descriptor, input_button |-> input_button,
   input_polled_button |-> input_polled_button,
   iio_dummy_random |-> iio_dummy_random, fake_gpio_chip |-> fake_gpio_chip,
   mcp23016 |-> mcp23016, fake_rtc |-> fake_rtc, fake_pwm |-> fake_pwm,
   dummy_regulator |-> dummy_regulator, fake_eth |-> fake_eth]
=============================================================================
