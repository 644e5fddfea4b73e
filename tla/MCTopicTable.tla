----------------------------- MODULE MCTopicTable -----------------------------
EXTENDS TopicTableProperties, TLC

\* /sensor/head/front/camera/rgb/color/image of sensor_msgs/msg/Image, and /tf of tf2_msgs/msg/TFMessage.
MCName == [image |-> [length |-> 40, tail |-> 6, rank |-> 1],
           tf |-> [length |-> 3, tail |-> 0, rank |-> 2]]
MCType == [image |-> [length |-> 21, tail |-> 6, rank |-> 2],
           tf |-> [length |-> 22, tail |-> 10, rank |-> 3]]
MCBytes == [image |-> 2000, tf |-> 100]
MCMaxMessages == [image |-> 2, tf |-> 0]
===============================================================================
